---------------------------- MODULE Spec2Model ----------------------------
(***************************************************************************)
(* Order-message parsing of the backend: WhatsAppParser                    *)
(* (utils/whatsapp_parser.py), NLPProcessor (models/nlp_processor.py) and  *)
(* CoordinatesExtractor (utils/coordinates_extractor.py).                  *)
(*                                                                         *)
(* A message is a sequence of fragments.  A fragment [k, a, b] is a piece  *)
(* of text of a kind k that the regular expressions of the code recognise, *)
(* with the numbers it carries (a, b).  Each extractor is the code's       *)
(* cascade over the fragments its patterns match.                          *)
(*                                                                         *)
(* Coordinates are integers in 1/10000 degree; confidences are integers in *)
(* 1/1000000, so that every product with 0.1, 0.5, 0.8 and 0.9 is exact.   *)
(***************************************************************************)
EXTENDS Integers, Sequences, FiniteSets, TLC

VARIABLES
    pc,             \* "idle", "called", "parsed" or "returned"
    op,             \* the operation the current caller invoked
    message,        \* its argument
    result,         \* ParsedOrder / parsed_data / extracted coordinates
    validation,     \* validation report of NLPProcessor.validate_parsed_data
    raised,         \* TRUE when an exception reached the caller
    given,          \* the parse result as it was handed to the validation
    nlp,            \* NLPProcessor: products_cache, product_names,
                    \* product_embeddings
    cache,          \* CoordinatesExtractor.cache
    issued,         \* the short links requested from the network by the
                    \* current extract_coordinates call, in order
    loading,        \* the _load_products call in progress, if any
    db,             \* the products table: the state of each product
    workers,        \* the threads inside _extract_from_short_url
    stock,          \* Product.current_stock of each product
    movements,      \* the StockMovement rows
    sales           \* the Sale rows, in the order of their creation

\* the tables of the stock and order endpoints
shop == <<stock, movements, sales>>

vars == <<pc, op, message, result, validation, raised, given, nlp, cache,
          issued, loading, db, workers, stock, movements, sales>>

-----------------------------------------------------------------------------
(* Optional values: Python None is the empty tuple, a value v is <<v>>.     *)

None == <<>>

Some(v) == <<v>>

IsSome(x) == x # <<>>

Val(x) == x[1]

\* Python truthiness of an optional number (None and 0 are falsy).
Truthy(x) == IsSome(x) /\ Val(x) # 0

Frag(k, a, b) == [k |-> k, a |-> a, b |-> b]

Kinds(m, ks) == SelectSeq(m, LAMBDA f : f.k \in ks)

\* First element of a sequence, as an optional value (re.search: first match).
First(s) == IF s = <<>> THEN None ELSE Some(s[1])

RECURSIVE MaxOf(_)
MaxOf(s) ==
    IF Len(s) = 1 THEN s[1]
    ELSE LET r == MaxOf(Tail(s)) IN IF s[1] >= r THEN s[1] ELSE r

-----------------------------------------------------------------------------
(* Bounds of the model.                                                     *)

\* Longest message built freely from the fragment vocabulary.
MaxFragments == 1

\* Largest value datetime.now() takes.
MaxClock == 1

\* Longest product_names that refresh_products_cache is followed up to.
MaxNames == 5

\* The products endpoints are followed on the products 1..MaxProducts.
MaxProducts == 3

\* Threads that call extract_coordinates on one extractor at the same time.
MaxWorkers == 2

\* Largest quantity of a stock or order request, and largest stock followed.
MaxStock == 3

\* StockMovement rows the stock endpoints are followed up to.
MaxMovements == 2

\* Sale rows the order endpoints are followed up to.
MaxSales == 2

-----------------------------------------------------------------------------
(* Sample coordinates, 1/10000 degree.                                      *)

InBox == <<211619, -868515>>       \* Cancun centre

OnEdge == <<215000, -865000>>      \* corner of the service area

MexicoCity == <<194326, -991332>>  \* in Mexico, outside the service area

NewYork == <<407000, -740000>>     \* outside both ranges

\* A number text such as "21.16.5" or "-", on which float() raises ValueError.
Malformed == 99999999

ParsesAsFloat(x) == x # Malformed

-----------------------------------------------------------------------------
(* Confidence arithmetic.                                                   *)

Unit == 1000 * 1000

Pct(n) == n * (Unit \div 100)

\* c *= t/10
Times(c, t) == (c * t) \div 10

-----------------------------------------------------------------------------
(* WhatsAppParser (utils/whatsapp_parser.py).                               *)
(*                                                                         *)
(* Fragment kinds of the raw text and what they carry:                      *)
(*   maps_q, maps_at, maps_ll   a map link with a = lat, b = lng            *)
(*   pair      "lat, lng"            latlng    "lat: x, lng: y"             *)
(*   ubicacion "ubicación: x, y"     coordenadas "coordenadas: x, y"        *)
(*   nombre / para   a = length of the captured name                        *)
(*   cliente   "cliente: N": a = N, b = length of the text the third name   *)
(*             pattern captures after it                                    *)
(*   hash      "#N": a = N                                                  *)
(*   tel / celular   a = number of digits captured                          *)
(*   qty_first "N kg name", name_first "name N kg", cantidad "cantidad: N   *)
(*             name": a = N, b = 0 (name normalises to None), 1 (a known    *)
(*             product keyword), 2 (another name)                           *)
(*   ref       a = length of the reference;  nota  a = length of the note   *)
(*   entrega   "entrega: hh:mm hrs", a = hhmm                               *)
(*   entre     "entre hh:mm y hh:mm", a, b = hhmm                           *)
(*   dollar "$N"; total "total: $N"; precio "precio: N"; pesos "N pesos":   *)
(*             a = N                                                        *)
(*   method    a payment keyword: a = 1 efectivo, 2 tarjeta, 3 transferencia*)
(*   short     a shortened map link, a = its identity                       *)
(*   place     a gazetteer name, a = its index                              *)
(*   chatter   text no pattern matches, a = its length in characters        *)
(*   colr      the misspelt word "colr"                                     *)

MapLinks == {"maps_q", "maps_at", "maps_ll"}

\* _clean_message: lower-cases, replaces every character outside
\* [\w\s\n$.,:\-()#] by a space and collapses white space.  A map link loses
\* its '/', '?', '=' and '@' and is left as host words and a bare "lat,lng";
\* a short link is left as words.
WACleanFragment(f) ==
    IF f.k \in MapLinks THEN Frag("pair", f.a, f.b)
    ELSE IF f.k = "short" THEN Frag("chatter", 20, 0)
    ELSE f

WACleanMessage(m) == [i \in DOMAIN m |-> WACleanFragment(m[i])]

\* the patterns of WhatsAppParser that hold a literal punctuation character,
\* each by the kinds of text it matches: "cliente:", "#N", "ubicación:",
\* "lat: x, lng: y", "$N", "precio:", "total:"
WALiteralPatterns ==
    << {"cliente"}, {"hash"}, {"ubicacion"}, {"latlng"}, {"dollar", "total"},
       {"precio"}, {"total"} >>

\* the range test of _extract_coordinates: -120 <= lng <= -80 and 10 <= lat <= 35
WAInRange(c) ==
    /\ -1200000 <= c[2] /\ c[2] <= -800000
    /\ 100000 <= c[1] /\ c[1] <= 350000

\* patterns['coordinates'], in order: the kinds each pattern matches
WACoordinatePatterns ==
    << {"pair", "ubicacion", "coordenadas"}, {"latlng"}, {"ubicacion"} >>

\* the matches of one pattern (re.findall), as coordinate pairs
WACoordinateMatches(m, i) ==
    LET fs == Kinds(m, WACoordinatePatterns[i])
    IN  [j \in DOMAIN fs |-> <<fs[j].a, fs[j].b>>]

RECURSIVE WACoordinatesFrom(_, _)
WACoordinatesFrom(m, i) ==
    IF i > Len(WACoordinatePatterns) THEN None
    ELSE LET ok == SelectSeq(WACoordinateMatches(m, i), WAInRange)
         IN  IF ok # <<>> THEN ok[1] ELSE WACoordinatesFrom(m, i + 1)

\* WhatsAppParser._extract_coordinates
WAExtractCoordinates(m) == WACoordinatesFrom(m, 1)

\* re.search of a pattern matching the kinds ks: its first match, optional
FirstFrag(m, ks) == First(Kinds(m, ks))

\* patterns['customer_name']: nombre, para, client[e]; a name is kept when
\* len(name) > 2, otherwise the next pattern is tried
WACustomerName(m) ==
    LET c1 == FirstFrag(m, {"nombre"})
        c2 == FirstFrag(m, {"para"})
        c3 == First(SelectSeq(m, LAMBDA f : f.k = "cliente" /\ f.b > 0))
    IN  IF IsSome(c1) /\ Val(c1).a > 2 THEN Some(Val(c1).a)
        ELSE IF IsSome(c2) /\ Val(c2).a > 2 THEN Some(Val(c2).a)
        ELSE IF IsSome(c3) /\ Val(c3).b > 2 THEN Some(Val(c3).b)
        ELSE None

\* patterns['phone']: tel, celular, whatsapp, contacto; kept when the digits
\* left by re.sub are at least 10
WACustomerPhone(m) ==
    LET c1 == FirstFrag(m, {"tel"})
        c2 == FirstFrag(m, {"celular"})
    IN  IF IsSome(c1) /\ Val(c1).a >= 10 THEN Some(Val(c1).a)
        ELSE IF IsSome(c2) /\ Val(c2).a >= 10 THEN Some(Val(c2).a)
        ELSE None

\* patterns['client_number']: cliente, client[e], #, numero; first match wins
WAClientNumber(m) ==
    LET c1 == FirstFrag(m, {"cliente"})
        c3 == FirstFrag(m, {"hash"})
    IN  IF IsSome(c1) THEN Some(Val(c1).a)
        ELSE IF IsSome(c3) THEN Some(Val(c3).a)
        ELSE None

\* WhatsAppParser._extract_customer_info
WAExtractCustomerInfo(m) ==
    [name |-> WACustomerName(m),
     phone |-> WACustomerPhone(m),
     client_number |-> WAClientNumber(m)]

\* patterns['prices'], in order: $N, precio: N, total: N, N pesos
WAPricePatterns == << {"dollar", "total"}, {"precio"}, {"total"}, {"pesos"} >>

\* all prices of the message: re.findall of each pattern in turn
RECURSIVE WAPricesFrom(_, _)
WAPricesFrom(m, i) ==
    IF i > Len(WAPricePatterns) THEN <<>>
    ELSE LET fs == Kinds(m, WAPricePatterns[i])
         IN  [j \in DOMAIN fs |-> fs[j].a] \o WAPricesFrom(m, i + 1)

\* WhatsAppParser._extract_product_price: the first price pattern that matches
\* near the product
RECURSIVE WAProductPriceFrom(_, _)
WAProductPriceFrom(m, i) ==
    IF i > Len(WAPricePatterns) THEN None
    ELSE LET fs == Kinds(m, WAPricePatterns[i])
         IN  IF fs # <<>> THEN Some(fs[1].a) ELSE WAProductPriceFrom(m, i + 1)

\* WhatsAppParser._normalize_product_name: None for a name of at most two
\* characters, the category for a known keyword, else the cleaned name
WANormalizeProductName(b) ==
    IF b = 0 THEN None ELSE IF b = 1 THEN Some("Croquetas") ELSE Some("Otro")

\* WhatsAppParser._extract_unit
WAExtractUnit(f) == IF f.k = "name_first" THEN "kg" ELSE "piezas"

\* patterns['product_quantity'], in order
WAProductPatterns == << {"qty_first"}, {"name_first"}, {"cantidad"} >>

\* the products one pattern contributes: a match is kept when its name
\* normalises to something and quantity > 0
WAProductsOf(m, i) ==
    LET fs == SelectSeq(Kinds(m, WAProductPatterns[i]),
                        LAMBDA f : IsSome(WANormalizeProductName(f.b)) /\ f.a > 0)
    IN  [j \in DOMAIN fs |->
            [name |-> Val(WANormalizeProductName(fs[j].b)),
             quantity |-> fs[j].a,
             unit |-> WAExtractUnit(fs[j]),
             price |-> WAProductPriceFrom(m, 1)]]

\* WhatsAppParser._extract_products
WAExtractProducts(m) ==
    WAProductsOf(m, 1) \o WAProductsOf(m, 2) \o WAProductsOf(m, 3)

\* references: referencia, ref, dirección, entre, cerca de; kept when
\* len(reference) > 5.  "entre 10:00 y 12:00" captures "10:00 y 12:00".
WAReference(m) ==
    LET c2 == FirstFrag(m, {"ref"})
        c4 == FirstFrag(m, {"entre"})
    IN  IF IsSome(c2) /\ Val(c2).a > 5 THEN Some(Val(c2).a)
        ELSE IF IsSome(c4) THEN Some(13)
        ELSE None

\* WhatsAppParser._extract_delivery_info
WAExtractDeliveryInfo(m) ==
    LET t1 == Kinds(m, {"entrega"})
        t2 == Kinds(m, {"entre"})
        n1 == FirstFrag(m, {"nota"})
    IN  [reference |-> WAReference(m),
         preferred_time |-> IF t1 # <<>> THEN Some(t1[1].a) ELSE None,
         time_range |->
            IF t1 = <<>> /\ t2 # <<>> THEN Some(<<t2[1].a, t2[1].b>>) ELSE None,
         special_instructions |->
            IF IsSome(n1) /\ Val(n1).a > 3 THEN Some(Val(n1).a) ELSE None]

\* WhatsAppParser._extract_payment_info
WAExtractPaymentInfo(m) ==
    LET prices == WAPricesFrom(m, 1)
        ms == Kinds(m, {"method"})
        found == {ms[j].a : j \in DOMAIN ms}
    IN  [total |-> IF prices # <<>> THEN Some(MaxOf(prices)) ELSE None,
         subtotals |-> IF prices # <<>> THEN Some(prices) ELSE None,
         method |-> IF 1 \in found THEN Some("efectivo")
                    ELSE IF 2 \in found THEN Some("tarjeta")
                    ELSE IF 3 \in found THEN Some("transferencia")
                    ELSE None]

\* a dict is truthy when it has a key
HasKey(d) == \E k \in DOMAIN d : IsSome(d[k])

\* _validate_parsed_data with the test of its first branch inverted
\* ("if parsed.products:")
WAValidateParsedDataInverted(r) ==
    LET noProducts == r.products # <<>>
        weak == ~IsSome(r.customer_info.name) /\ ~IsSome(r.customer_info.phone)
        total == r.payment_info.total
        unusual == Truthy(total) /\ (Val(total) < 10 \/ Val(total) > 10000)
        errors == r.errors \o
            (IF noProducts THEN <<"No se identificaron productos en el mensaje">>
             ELSE <<>>)
        warnings == r.warnings \o
            (IF ~IsSome(r.coordinates)
             THEN <<"No se encontraron coordenadas de entrega">> ELSE <<>>) \o
            (IF weak THEN <<"Información limitada del cliente">> ELSE <<>>) \o
            (IF unusual THEN <<"Total parece inusual">> ELSE <<>>)
        c1 == IF noProducts THEN Times(r.confidence, 1) ELSE r.confidence
        c2 == IF weak THEN Times(c1, 8) ELSE c1
        c3 == IF errors # <<>> THEN Times(c2, 5) ELSE c2
        c4 == IF warnings # <<>> THEN Times(c3, 9) ELSE c3
    IN  [r EXCEPT !.errors = errors,
                  !.warnings = warnings,
                  !.confidence = c4,
                  !.metadata.validation_completed = Some(TRUE),
                  !.metadata.final_confidence = Some(c4)]

\* WhatsAppParser._validate_parsed_data: works on the result it is given
WAValidateParsedData(r) ==
    LET noProducts == r.products = <<>>
        weak == ~IsSome(r.customer_info.name) /\ ~IsSome(r.customer_info.phone)
        total == r.payment_info.total
        unusual == Truthy(total) /\ (Val(total) < 10 \/ Val(total) > 10000)
        errors == r.errors \o
            (IF noProducts THEN <<"No se identificaron productos en el mensaje">>
             ELSE <<>>)
        warnings == r.warnings \o
            (IF ~IsSome(r.coordinates)
             THEN <<"No se encontraron coordenadas de entrega">> ELSE <<>>) \o
            (IF weak THEN <<"Información limitada del cliente">> ELSE <<>>) \o
            (IF unusual THEN <<"Total parece inusual">> ELSE <<>>)
        c1 == IF noProducts THEN Times(r.confidence, 1) ELSE r.confidence
        c2 == IF weak THEN Times(c1, 8) ELSE c1
        c3 == IF errors # <<>> THEN Times(c2, 5) ELSE c2
        c4 == IF warnings # <<>> THEN Times(c3, 9) ELSE c3
    IN  [r EXCEPT !.errors = errors,
                  !.warnings = warnings,
                  !.confidence = c4,
                  !.metadata.validation_completed = Some(TRUE),
                  !.metadata.final_confidence = Some(c4)]

\* the ParsedOrder that parse_message starts from
WAInitialOrder ==
    [coordinates |-> None,
     products |-> <<>>,
     customer_info |-> [name |-> None, phone |-> None, client_number |-> None],
     delivery_info |-> [reference |-> None, preferred_time |-> None,
                        time_range |-> None, special_instructions |-> None],
     payment_info |-> [total |-> None, subtotals |-> None, method |-> None],
     metadata |-> [original_message |-> None, cleaned_message |-> None,
                   message_length |-> None, parsed_at |-> None,
                   products_found |-> None, validation_completed |-> None,
                   final_confidence |-> None],
     confidence |-> 0,
     errors |-> <<>>,
     warnings |-> <<>>]

\* the steps of parse_message inside its try block before the validation, in
\* order
WASteps == <<"clean", "coordinates", "customer", "products", "delivery", "payment">>

\* the extractors among them: a step that may raise
WAFaults == {"none", "coordinates", "customer", "products", "delivery", "payment"}

\* one step of parse_message on the result so far; now is datetime.now()
WAStep(step, r, raw, now) ==
    LET m == WACleanMessage(raw) IN
    CASE step = "clean" ->
            [r EXCEPT !.metadata.original_message = Some(raw),
                      !.metadata.cleaned_message = Some(m),
                      !.metadata.message_length = Some(Len(raw)),
                      !.metadata.parsed_at = Some(now)]
      [] step = "coordinates" ->
            LET c == WAExtractCoordinates(m)
            IN  IF IsSome(c)
                THEN [r EXCEPT !.coordinates = c,
                               !.confidence = r.confidence + Pct(25)]
                ELSE [r EXCEPT !.warnings =
                         Append(r.warnings, "No se encontraron coordenadas")]
      [] step = "customer" ->
            LET ci == WAExtractCustomerInfo(m)
            IN  [r EXCEPT !.customer_info = ci,
                          !.confidence =
                             IF IsSome(ci.name) \/ IsSome(ci.phone)
                             THEN r.confidence + Pct(15) ELSE r.confidence]
      [] step = "products" ->
            LET ps == WAExtractProducts(m)
            IN  IF ps # <<>>
                THEN [r EXCEPT !.products = ps,
                               !.confidence = r.confidence + Pct(35),
                               !.metadata.products_found = Some(Len(ps))]
                ELSE [r EXCEPT !.errors =
                         Append(r.errors, "No se encontraron productos válidos")]
      [] step = "delivery" ->
            LET di == WAExtractDeliveryInfo(m)
            IN  [r EXCEPT !.delivery_info = di,
                          !.confidence =
                             IF HasKey(di) THEN r.confidence + Pct(15)
                             ELSE r.confidence]
      [] step = "payment" ->
            LET pi == WAExtractPaymentInfo(m)
            IN  [r EXCEPT !.payment_info = pi,
                          !.confidence =
                             IF Truthy(pi.total) \/ IsSome(pi.method)
                             THEN r.confidence + Pct(10) ELSE r.confidence]

\* the except clause of parse_message
WAOnException(r) ==
    [r EXCEPT !.errors = Append(r.errors, "Error de parseo"),
              !.confidence = 0]

\* the steps in order, up to the one that raises: [raises, value]
RECURSIVE WARun(_, _, _, _, _)
WARun(r, i, raw, fault, now) ==
    IF i > Len(WASteps) THEN [raises |-> FALSE, value |-> r]
    ELSE IF WASteps[i] = fault THEN [raises |-> TRUE, value |-> r]
    ELSE WARun(WAStep(WASteps[i], r, raw, now), i + 1, raw, fault, now)

\* what parse_message hands to its caller after the run of its try block: the
\* ParsedOrder (validated, or marked by the except clause), whether an
\* exception left the method, and the order as it was handed to
\* _validate_parsed_data (None when the validation was not reached)
WAReturn(run) ==
    [value |-> IF run.raises THEN WAOnException(run.value)
               ELSE WAValidateParsedData(run.value),
     raised |-> FALSE,
     given |-> IF run.raises THEN None ELSE Some(run.value)]

\* WhatsAppParser.parse_message; fault names the extractor that raises, if any
WAParseMessage(raw, fault, now) == WAReturn(WARun(WAInitialOrder, 1, raw, fault, now))

-----------------------------------------------------------------------------
(* NLPProcessor (models/nlp_processor.py).                                  *)
(*                                                                         *)
(* Further fragment kinds:                                                  *)
(*   mention   a product of the catalogue in the text: a = its id, b = the  *)
(*             form: 1 its whole search text, 2 its name, 3 its name with a *)
(*             typing error, 4 a distant spelling of its name               *)
(*   brandw    "<brand> Nkg": a = id of a product of that brand, b = N      *)
(*   piezas    "N piezas": a = N                                            *)
(*   number    a bare number: a = its value                                 *)
(*   maps_text what _clean_message leaves of a map link                     *)

\* rows of the products table (database/models.py: Product)
Catalogue ==
    << [id |-> 1, name |-> "Nupec Adulto", brand |-> "Nupec",
        category |-> "Alimento", weight_size |-> Some(20), price |-> 1800],
       [id |-> 2, name |-> "Nupec Cachorro", brand |-> "Nupec",
        category |-> "Alimento", weight_size |-> Some(8), price |-> 900],
       [id |-> 3, name |-> "Collar Rojo", brand |-> "Petco",
        category |-> "Accesorios", weight_size |-> None, price |-> 150],
       [id |-> 4, name |-> "Collar Azul", brand |-> "Petco",
        category |-> "Accesorios", weight_size |-> None, price |-> 160] >>

\* str.lower()
Lower(t) ==
    CASE t = "Nupec Adulto" -> "nupec adulto"
      [] t = "Nupec Cachorro" -> "nupec cachorro"
      [] t = "Collar Rojo" -> "collar rojo"
      [] t = "Collar Azul" -> "collar azul"
      [] t = "Nupec" -> "nupec"
      [] t = "Petco" -> "petco"
      [] OTHER -> t

\* len() of the texts of the catalogue
TextLen(t) ==
    CASE t = "nupec adulto" -> 12
      [] t = "nupec cachorro" -> 14
      [] t = "collar rojo" -> 11
      [] t = "collar azul" -> 11
      [] t = "nupec adulto nupec alimento 20kg" -> 32
      [] t = "nupec cachorro nupec alimento 8kg" -> 33
      [] t = "collar rojo petco accesorios" -> 28
      [] t = "collar azul petco accesorios" -> 28
      [] OTHER -> 10

\* f"{name} {brand} {category}" plus " {weight_size}", lower-cased
SearchText(p) ==
    CASE p.id = 1 -> "nupec adulto nupec alimento 20kg"
      [] p.id = 2 -> "nupec cachorro nupec alimento 8kg"
      [] p.id = 3 -> "collar rojo petco accesorios"
      [] OTHER -> "collar azul petco accesorios"

\* the entry _load_products stores for one product
CacheEntry(p) ==
    [id |-> p.id, name |-> p.name, brand |-> p.brand, category |-> p.category,
     weight_size |-> p.weight_size, price |-> p.price,
     search_text |-> SearchText(p)]

\* the products table as the model follows it: each product of the catalogue
\* is "absent" (no row), "active" or "inactive" (is_active False)
ProductStates == {"absent", "active", "inactive"}

\* db.session.query(Product).filter(Product.is_active == True).all()
ActiveRows(table) == SelectSeq(Catalogue, LAMBDA p : table[p.id] = "active")

\* the tables the processor is started on: no product yet, or the catalogue
Databases ==
    {[id \in DOMAIN Catalogue |-> "absent"], [id \in DOMAIN Catalogue |-> "active"]}

\* NLPProcessor._clean_message: replaces every character outside
\* [\w\s.,:\-()/$] by a space, collapses white space, lower-cases.  '?', '=',
\* '@' and '#' are lost: a map link is left as text followed by "lat,lng" and
\* "#123" as "123".
NLPCleanFragment(f) ==
    IF f.k \in MapLinks THEN Frag("maps_text", f.a, f.b)
    ELSE IF f.k = "hash" THEN Frag("number", f.a, 0)
    ELSE f

NLPCleanMessage(m) == [i \in DOMAIN m |-> NLPCleanFragment(m[i])]

\* the patterns of NLPProcessor that hold a literal punctuation character,
\* each by the kinds of text it matches: the maps link with "?q=", the short
\* link, "ubicación:", "coordenadas:", "cliente:", "#N"
NLPLiteralPatterns ==
    << {"maps_q"}, {"short"}, {"ubicacion"}, {"coordenadas"}, {"cliente"},
       {"hash"} >>

\* float(text)
FloatOf(x) == [ok |-> ParsesAsFloat(x), value |-> x]

ServiceLatMin == 205000

ServiceLatMax == 215000

ServiceLngMin == -875000

ServiceLngMax == -865000

\* (20.5 <= lat <= 21.5) and (-87.5 <= lng <= -86.5)
NLPInServiceArea(lat, lng) ==
    /\ ServiceLatMin <= lat /\ lat <= ServiceLatMax
    /\ ServiceLngMin <= lng /\ lng <= ServiceLngMax

\* the kinds in which "dd.ddd, -dd.ddd" stands as such
AdjacentPairs == {"pair", "maps_text", "ubicacion", "coordenadas"}

\* what the last pattern, ([0-9]{2}\.[0-9]+)[,\s]+(-[0-9]{2}\.[0-9]+), reads
\* in a fragment: of "21.16.5, -86.85" it reads 16.5 and -86.85
BareLat(f) == IF f.a = Malformed THEN 165000 ELSE f.a

\* google_maps_patterns, in order: the kinds the pattern matches in the
\* cleaned text (the first needs "?q=", which cleaning removed)
NLPCoordinatePatterns ==
    << {}, {"short"}, {"ubicacion"}, {"coordenadas"}, AdjacentPairs >>

RECURSIVE NLPCoordinatesFrom(_, _)
NLPCoordinatesFrom(m, i) ==
    IF i > Len(NLPCoordinatePatterns) THEN None
    ELSE LET match == FirstFrag(m, NLPCoordinatePatterns[i])
         IN  IF ~IsSome(match) \/ i = 2 THEN NLPCoordinatesFrom(m, i + 1)
             ELSE LET f == Val(match)
                      lat == IF i = 5 THEN BareLat(f) ELSE f.a
                  IN  IF ~FloatOf(lat).ok \/ ~FloatOf(f.b).ok
                      THEN NLPCoordinatesFrom(m, i + 1)
                      ELSE IF NLPInServiceArea(lat, f.b) THEN <<lat, f.b>>
                      ELSE NLPCoordinatesFrom(m, i + 1)

\* NLPProcessor._extract_coordinates
NLPExtractCoordinates(m) == NLPCoordinatesFrom(m, 1)

\* Geometry of the cleaned text: the length of a fragment in characters and
\* the runs of digits in it, each [off, val]: offset in the fragment, value.
Abs(x) == IF x < 0 THEN -x ELSE x

CoordDigits(off, a, b) ==
    IF a = Malformed
    THEN << [off |-> off, val |-> 21], [off |-> off + 3, val |-> 16],
            [off |-> off + 6, val |-> 5],
            [off |-> off + 10, val |-> Abs(b) \div 10000] >>
    ELSE << [off |-> off, val |-> Abs(a) \div 10000],
            [off |-> off + 3, val |-> Abs(a) % 10000],
            [off |-> off + 10, val |-> Abs(b) \div 10000],
            [off |-> off + 13, val |-> Abs(b) % 10000] >>

ProductById(id) == Catalogue[id]

FragLen(f) ==
    CASE f.k = "pair" -> 17
      [] f.k = "maps_text" -> 44
      [] f.k = "ubicacion" -> 28
      [] f.k = "coordenadas" -> 30
      [] f.k = "latlng" -> 27
      [] f.k = "short" -> 26
      [] f.k = "cliente" -> 12
      [] f.k = "number" -> 3
      [] f.k = "cantidad" -> 11
      [] f.k = "piezas" -> 8
      [] f.k = "ref" -> 5 + f.a
      [] f.k = "total" -> 11
      [] f.k = "dollar" -> 4
      [] f.k = "mention" ->
            IF f.b = 1 THEN TextLen(SearchText(ProductById(f.a)))
            ELSE TextLen(Lower(ProductById(f.a).name))
      [] f.k = "brandw" -> 10
      [] f.k \in MapLinks -> 44
      [] f.k = "hash" -> 4
      [] f.k = "chatter" -> f.a
      [] f.k = "colr" -> 4
      [] OTHER -> 12

FragDigits(f) ==
    CASE f.k = "pair" -> CoordDigits(0, f.a, f.b)
      [] f.k = "maps_text" -> CoordDigits(27, f.a, f.b)
      [] f.k = "ubicacion" -> CoordDigits(11, f.a, f.b)
      [] f.k = "coordenadas" -> CoordDigits(13, f.a, f.b)
      [] f.k = "cliente" -> << [off |-> 9, val |-> f.a] >>
      [] f.k = "number" -> << [off |-> 0, val |-> f.a] >>
      [] f.k = "cantidad" -> << [off |-> 10, val |-> f.a] >>
      [] f.k = "piezas" -> << [off |-> 0, val |-> f.a] >>
      [] f.k = "total" -> << [off |-> 8, val |-> f.a] >>
      [] f.k = "dollar" -> << [off |-> 1, val |-> f.a] >>
      [] f.k = "mention" ->
            IF f.b = 1 /\ IsSome(ProductById(f.a).weight_size)
            THEN LET w == Val(ProductById(f.a).weight_size)
                 IN  << [off |-> FragLen(f) - 2 - (IF w >= 10 THEN 2 ELSE 1),
                         val |-> w] >>
            ELSE <<>>
      [] f.k = "brandw" -> << [off |-> 6, val |-> f.b] >>
      [] OTHER -> <<>>

\* offset of fragment i in the message (fragments are one space apart)
RECURSIVE StartOf(_, _)
StartOf(m, i) == IF i = 1 THEN 0 ELSE StartOf(m, i - 1) + FragLen(m[i - 1]) + 1

\* len(message)
MessageLen(m) == IF m = <<>> THEN 0 ELSE StartOf(m, Len(m)) + FragLen(m[Len(m)])

\* the runs of digits of the message from position lo up to hi, in order
RECURSIVE DigitsBetween(_, _, _, _)
DigitsBetween(m, i, lo, hi) ==
    IF i > Len(m) THEN <<>>
    ELSE LET ds == FragDigits(m[i])
             at == StartOf(m, i)
             inside == SelectSeq(ds, LAMBDA d : lo <= at + d.off /\ at + d.off < hi)
         IN  [j \in DOMAIN inside |-> inside[j].val] \o DigitsBetween(m, i + 1, lo, hi)

\* A matched text: [t, id, w].  t = "search_text": the search text of product
\* id; t = "name": its name; t = "brand_weight": f"{brand} {w}kg".
MatchedText(t, id, w) == [t |-> t, id |-> id, w |-> w]

MatchedLen(x) ==
    IF x.t = "search_text" THEN TextLen(SearchText(ProductById(x.id)))
    ELSE IF x.t = "name" THEN TextLen(Lower(ProductById(x.id).name))
    ELSE 10

\* the fragment holds product_text.lower() (at its start)
Holds(f, x) ==
    \/ x.t = "search_text" /\ f.k = "mention" /\ f.a = x.id /\ f.b = 1
    \/ x.t = "name" /\ f.k = "mention" /\ f.a = x.id /\ f.b \in {1, 2}
    \/ /\ x.t = "brand_weight" /\ f.k = "brandw" /\ f.b = x.w
       /\ ProductById(f.a).brand = ProductById(x.id).brand

\* message.find(product_text.lower()): the position, or -1
RECURSIVE FindFrom(_, _, _)
FindFrom(m, x, i) ==
    IF i > Len(m) THEN -1
    ELSE IF Holds(m[i], x) THEN StartOf(m, i)
    ELSE FindFrom(m, x, i + 1)

Min(a, b) == IF a <= b THEN a ELSE b

Max(a, b) == IF a >= b THEN a ELSE b

\* the message-wide patterns: cantidad N, N piezas, N unidades, N pzas
NLPQuantityPatterns == << {"cantidad"}, {"piezas"}, {"unidades"}, {"pzas"} >>

RECURSIVE NLPGeneralQuantity(_, _)
NLPGeneralQuantity(m, i) ==
    IF i > Len(NLPQuantityPatterns) THEN 1
    ELSE LET match == FirstFrag(m, NLPQuantityPatterns[i])
         IN  IF IsSome(match) THEN Val(match).a ELSE NLPGeneralQuantity(m, i + 1)

\* the quantity read in the window of 50 characters around the product text
\* found at product_pos, or message-wide when the text was not found (-1)
QuantityAt(m, x, product_pos) ==
    IF product_pos = -1 THEN NLPGeneralQuantity(m, 1)
    ELSE LET numbers == DigitsBetween(m, 1, Max(0, product_pos - 50),
                            Min(MessageLen(m), product_pos + MatchedLen(x) + 50))
         IN  IF numbers # <<>> THEN Min(numbers[1], 1000) ELSE 1

\* NLPProcessor._extract_quantity_near_product
NLPExtractQuantityNearProduct(m, x) == QuantityAt(m, x, FindFrom(m, x, 1))

\* Stable sort of [key, item] records by key, largest first (sorted(...,
\* reverse=True) and heapq.nlargest keep the order of equal keys).
RECURSIVE InsertDesc(_, _)
InsertDesc(sorted, e) ==
    IF sorted = <<>> THEN <<e>>
    ELSE IF sorted[1].key >= e.key THEN <<sorted[1]>> \o InsertDesc(Tail(sorted), e)
    ELSE <<e>> \o sorted

RECURSIVE SortDescFrom(_, _, _)
SortDescFrom(s, i, acc) ==
    IF i > Len(s) THEN acc ELSE SortDescFrom(s, i + 1, InsertDesc(acc, s[i]))

SortDesc(s) == SortDescFrom(s, 1, <<>>)

\* self.similarity_threshold, in percent
SimilarityThreshold == 70

\* cosine_similarity of the message with the TF-IDF row of product id, in
\* percent: what one fragment contributes
FragTfidf(f, id) ==
    IF f.k = "mention" /\ f.a = id
    THEN (IF f.b = 1 THEN 95 ELSE IF f.b = 2 THEN 60 ELSE 30)
    ELSE 0

\* fuzz.partial_ratio of the text with the name of product id: what one
\* fragment contributes
FragRatio(f, id) ==
    IF f.k = "mention" /\ f.a = id
    THEN (IF f.b \in {1, 2} THEN 100 ELSE IF f.b = 3 THEN 90 ELSE 70)
    ELSE IF f.k = "mention" /\ ProductById(f.a).brand = ProductById(id).brand
    THEN 50
    ELSE IF f.k = "brandw" /\ ProductById(f.a).brand = ProductById(id).brand
    THEN 65
    ELSE IF f.k = "colr" THEN <<33, 75, 75, 75>>[id]
    ELSE 0

RECURSIVE MaxOver(_, _, _)
MaxOver(scores, i, best) ==
    IF i > Len(scores) THEN best
    ELSE MaxOver(scores, i + 1, Max(best, scores[i]))

TfidfSimilarity(m, id) == MaxOver([i \in DOMAIN m |-> FragTfidf(m[i], id)], 1, 0)

PartialRatio(m, id) == MaxOver([i \in DOMAIN m |-> FragRatio(m[i], id)], 1, 0)

\* brand_pattern in message
HoldsBrand(f, brand) ==
    \/ f.k = "brandw" /\ ProductById(f.a).brand = brand
    \/ /\ f.k = "mention" /\ ProductById(f.a).brand = brand
       /\ \/ f.b = 1
          \/ f.b = 2 /\ ProductById(f.a).id \in {1, 2}

\* a number followed by kg, g or ml in the fragment, optional
UnitNumber(f) ==
    IF f.k = "brandw" THEN Some(f.b)
    ELSE IF f.k = "mention" /\ f.b = 1 THEN ProductById(f.a).weight_size
    ELSE None

\* re.search(brand + ".*?([0-9]+)\s*(kg|g|ml)", message): the number after
\* the first occurrence of the brand, optional
BrandWeightMatch(m, brand) ==
    LET at == SelectSeq([i \in DOMAIN m |-> i], LAMBDA i : HoldsBrand(m[i], brand))
    IN  IF at = <<>> THEN None
        ELSE LET later == SelectSeq(SubSeq(m, at[1], Len(m)),
                                    LAMBDA f : IsSome(UnitNumber(f)))
             IN  IF later = <<>> THEN None ELSE UnitNumber(later[1])

\* method 1 of _find_similar_products, for row i of product_embeddings: the
\* row is given the i-th key of products_cache (IndexError when there is none)
TfidfCandidate(m, products, rows, i) ==
    IF i > Len(products)
    THEN [raises |-> TRUE, confidence |-> TfidfSimilarity(m, rows[i])]
    ELSE [raises |-> FALSE,
          product_id |-> products[i].id,
          product |-> products[i],
          confidence |-> TfidfSimilarity(m, rows[i]),
          matched_text |-> MatchedText("search_text", products[i].id, 0),
          method |-> "tfidf"]

\* the rows above the threshold
TfidfCandidates(m, products, rows) ==
    SelectSeq([i \in DOMAIN rows |-> TfidfCandidate(m, products, rows, i)],
              LAMBDA c : c.confidence > SimilarityThreshold)

\* method 2, for one product of the cache: fuzzy name (ratio), then brand and
\* weight (weight: the number read after the brand, optional)
FuzzyCandidates(info, ratio, weight) ==
    (IF ratio > 80
     THEN << [raises |-> FALSE, product_id |-> info.id, product |-> info,
              confidence |-> ratio,
              matched_text |-> MatchedText("name", info.id, 0),
              method |-> "fuzzy_name"] >>
     ELSE <<>>) \o
    (IF IsSome(weight) /\ IsSome(info.weight_size)
        /\ Val(weight) = Val(info.weight_size)
     THEN << [raises |-> FALSE, product_id |-> info.id, product |-> info,
              confidence |-> 90,
              matched_text |-> MatchedText("brand_weight", info.id, Val(weight)),
              method |-> "brand_weight"] >>
     ELSE <<>>)

RECURSIVE AllFuzzyCandidates(_, _, _)
AllFuzzyCandidates(m, products, i) ==
    IF i > Len(products) THEN <<>>
    ELSE FuzzyCandidates(products[i], PartialRatio(m, products[i].id),
                         BrandWeightMatch(m, products[i].brand))
         \o AllFuzzyCandidates(m, products, i + 1)

\* unique_products: one entry per product_id, replaced by a later candidate of
\* strictly higher confidence
RECURSIVE UniqueProducts(_, _, _)
UniqueProducts(cands, i, acc) ==
    IF i > Len(cands) THEN acc
    ELSE LET at == SelectSeq([j \in DOMAIN acc |-> j],
                             LAMBDA j : acc[j].product_id = cands[i].product_id)
         IN  UniqueProducts(cands, i + 1,
                IF at = <<>> THEN Append(acc, cands[i])
                ELSE IF cands[i].confidence > acc[at[1]].confidence
                THEN [acc EXCEPT ![at[1]] = cands[i]]
                ELSE acc)

\* sorted(values, key=lambda x: x[field], reverse=True)
SortedBy(values, field) ==
    LET sorted == SortDesc([j \in DOMAIN values |->
                               [key |-> values[j][field], item |-> values[j]]])
    IN  [j \in DOMAIN sorted |-> sorted[j].item]

\* the end of _find_similar_products keeping, of each product, the candidate
\* found first
RankedProductsFirst(similar) ==
    IF \E j \in DOMAIN similar : similar[j].raises
    THEN [raises |-> TRUE, value |-> <<>>]
    ELSE [raises |-> FALSE,
          value |-> SortedBy(SelectSeq(similar, LAMBDA c :
                        \A j \in DOMAIN similar :
                            (similar[j].product_id = c.product_id
                             /\ similar[j].method # c.method) =>
                                c.method = "tfidf"
                                \/ (c.method = "fuzzy_name"
                                    /\ similar[j].method = "brand_weight")),
                      "confidence")]

\* the end of _find_similar_products on the candidates of both methods
RankedProducts(similar) ==
    IF \E j \in DOMAIN similar : similar[j].raises
    THEN [raises |-> TRUE, value |-> <<>>]
    ELSE [raises |-> FALSE,
          value |-> SortedBy(UniqueProducts(similar, 1, <<>>), "confidence")]

\* _find_similar_products returning early only when there are no embeddings
NLPFindSimilarProductsUnguarded(m, products, embeddings) ==
    IF ~IsSome(embeddings) THEN [raises |-> FALSE, value |-> <<>>]
    ELSE RankedProducts(TfidfCandidates(m, products, Val(embeddings))
                        \o AllFuzzyCandidates(m, products, 1))

\* NLPProcessor._find_similar_products: [raises, value]
NLPFindSimilarProducts(m, products, embeddings) ==
    IF products = <<>> \/ ~IsSome(embeddings) THEN [raises |-> FALSE, value |-> <<>>]
    ELSE RankedProducts(TfidfCandidates(m, products, Val(embeddings))
                        \o AllFuzzyCandidates(m, products, 1))

\* the dict _extract_products builds for one match
ProductEntry(m, pm) ==
    [product_id |-> pm.product_id,
     name |-> pm.product.name,
     brand |-> pm.product.brand,
     category |-> pm.product.category,
     weight_size |-> pm.product.weight_size,
     price |-> pm.product.price,
     quantity |-> NLPExtractQuantityNearProduct(m, pm.matched_text),
     confidence |-> pm.confidence,
     matched_text |-> pm.matched_text]

\* the loop of _extract_products over the matches found
ProductEntries(m, found) ==
    IF found.raises THEN found
    ELSE [raises |-> FALSE,
          value |-> [j \in DOMAIN found.value |-> ProductEntry(m, found.value[j])]]

\* NLPProcessor._extract_products: [raises, value]
NLPExtractProducts(m, products, embeddings) ==
    ProductEntries(m, NLPFindSimilarProducts(m, products, embeddings))

\* NLPProcessor._extract_client_number: cliente N, #N, client[e] N ('#' does
\* not survive cleaning)
NLPExtractClientNumber(m) ==
    LET match == FirstFrag(m, {"cliente"})
    IN  IF IsSome(match) THEN Some(Val(match).a) ELSE None

\* NLPProcessor._extract_references: the stripped text after the first
\* referencia / ref, by its length (0: an empty string)
NLPExtractReferences(m) ==
    LET match == FirstFrag(m, {"ref"})
    IN  IF IsSome(match) THEN Some(Val(match).a) ELSE None

\* the patterns of _extract_total_price, in order: total, precio, $N, N pesos
NLPTotalPatterns == << {"total"}, {"precio"}, {"dollar"}, {"pesos"} >>

RECURSIVE NLPTotalFrom(_, _)
NLPTotalFrom(m, i) ==
    IF i > Len(NLPTotalPatterns) THEN None
    ELSE LET match == FirstFrag(m, NLPTotalPatterns[i])
         IN  IF IsSome(match) THEN Some(Val(match).a) ELSE NLPTotalFrom(m, i + 1)

\* NLPProcessor._extract_total_price
NLPExtractTotalPrice(m) == NLPTotalFrom(m, 1)


\* the parsed_data that parse_whatsapp_message starts from
NLPInitialData(raw) ==
    [coordinates |-> None,
     products |-> <<>>,
     client_number |-> None,
     references |-> None,
     total_price |-> None,
     raw_message |-> raw,
     confidence |-> 0]

\* the extractors of parse_whatsapp_message inside its try block, in order
NLPSteps == <<"coordinates", "products", "client_number", "references", "total_price">>

\* fault names the extractor that raises, if any
NLPFaults == {"none", "coordinates", "products", "client_number", "references",
              "total_price"}

\* "if value:" for what the extractor of a key returns: a float is truthy
\* unless 0, the references unless empty, the others unless None or []
Present(key, value) ==
    IF key \in {"references", "total_price"} THEN Truthy(value) ELSE value # <<>>

\* "if value: parsed_data[key] = value; parsed_data['confidence'] += weight"
Found(d, key, value, weight) ==
    IF Present(key, value)
    THEN [d EXCEPT ![key] = value, !.confidence = d.confidence + weight]
    ELSE d

\* the products weighted 0.5 instead of 0.4
FoundProductsHeavy(d, ps) ==
    [raises |-> ps.raises,
     value |-> IF ps.raises THEN d ELSE Found(d, "products", ps.value, Pct(50))]

\* the same for the products, whose extraction may raise
FoundProducts(d, ps) ==
    [raises |-> ps.raises,
     value |-> IF ps.raises THEN d ELSE Found(d, "products", ps.value, Pct(40))]

\* one extractor of parse_whatsapp_message on the dict so far: [raises, value]
NLPStep(step, d, m, products, embeddings) ==
    CASE step = "coordinates" ->
            [raises |-> FALSE,
             value |-> Found(d, "coordinates", NLPExtractCoordinates(m), Pct(30))]
      [] step = "products" ->
            FoundProducts(d, NLPExtractProducts(m, products, embeddings))
      [] step = "client_number" ->
            [raises |-> FALSE,
             value |-> Found(d, "client_number", NLPExtractClientNumber(m), Pct(10))]
      [] step = "references" ->
            [raises |-> FALSE,
             value |-> Found(d, "references", NLPExtractReferences(m), Pct(10))]
      [] step = "total_price" ->
            [raises |-> FALSE,
             value |-> Found(d, "total_price", NLPExtractTotalPrice(m), Pct(10))]

\* the extractors in order, up to the one that raises: [raises, value]
RECURSIVE NLPRun(_, _, _, _, _, _)
RECURSIVE NLPAfter(_, _, _, _, _, _)
NLPRun(d, i, m, fault, products, embeddings) ==
    IF i > Len(NLPSteps) THEN [raises |-> FALSE, value |-> d]
    ELSE IF NLPSteps[i] = fault THEN [raises |-> TRUE, value |-> d]
    ELSE NLPAfter(NLPStep(NLPSteps[i], d, m, products, embeddings), i, m, fault,
                  products, embeddings)

NLPAfter(out, i, m, fault, products, embeddings) ==
    IF out.raises THEN out
    ELSE NLPRun(out.value, i + 1, m, fault, products, embeddings)

\* the dict the except clause of parse_whatsapp_message returns
NLPOnException == [error |-> "exception", confidence |-> 0]

\* parse_whatsapp_message without its except clause: the exception of an
\* extractor leaves the method
NLPReturnUncaught(run) ==
    [value |-> run.value, raised |-> run.raises]

\* what parse_whatsapp_message hands to its caller after the run of its try
\* block: the dict, and whether an exception left the method
NLPReturn(run) ==
    [value |-> IF run.raises THEN NLPOnException ELSE run.value,
     raised |-> FALSE]

\* NLPProcessor.parse_whatsapp_message
NLPParseWhatsappMessage(raw, fault, products, embeddings) ==
    NLPReturn(NLPRun(NLPInitialData(raw), 1, NLPCleanMessage(raw), fault,
                     products, embeddings))

\* dict.get(key, default)
Get(d, key, default) == IF key \in DOMAIN d THEN d[key] ELSE default

\* the product whose lower-cased name is n
IdOfName(n) == CHOOSE id \in DOMAIN Catalogue : Lower(Catalogue[id].name) = n

\* s[:n]
Take(s, n) == SubSeq(s, 1, Min(n, Len(s)))

\* process.extract(phrase, product_names, scorer=partial_ratio, limit): the
\* limit best [key: score, item: name], best first
ProcessExtract(f, names, limit) ==
    Take(SortDesc([j \in DOMAIN names |->
            [key |-> FragRatio(f, IdOfName(names[j])), item |-> names[j]]]), limit)

\* the first product of the cache with the lower-cased name n
FirstNamed(products, n) ==
    products[CHOOSE k \in DOMAIN products :
                /\ Lower(products[k].name) = n
                /\ \A h \in 1..(k - 1) : Lower(products[h].name) # n]

\* the suggestion for phrase f, product info and score
Suggestion(f, info, score) ==
    [original_text |-> f,
     suggested_product |-> info.name,
     product_id |-> info.id,
     similarity_score |-> score,
     brand |-> info.brand,
     category |-> info.category]

\* the suggestions one phrase contributes: for every extracted name scoring
\* above 60, the first product of the cache with that name
PhraseSuggestions(f, products, matches) ==
    LET good == SelectSeq(matches, LAMBDA x :
                    x.key > 60
                    /\ \E j \in DOMAIN products : Lower(products[j].name) = x.item)
    IN  [j \in DOMAIN good |->
            Suggestion(f, FirstNamed(products, good[j].item), good[j].key)]

RECURSIVE AllSuggestions(_, _, _, _, _)
AllSuggestions(phrases, i, products, names, limit) ==
    IF i > Len(phrases) THEN <<>>
    ELSE PhraseSuggestions(phrases[i], products,
                           ProcessExtract(phrases[i], names, limit))
         \o AllSuggestions(phrases, i + 1, products, names, limit)

\* unique_suggestions: one entry per suggested_product, replaced by a later
\* suggestion of strictly higher score
RECURSIVE UniqueSuggestions(_, _, _)
UniqueSuggestions(sugg, i, acc) ==
    IF i > Len(sugg) THEN acc
    ELSE LET at == SelectSeq([j \in DOMAIN acc |-> j],
                     LAMBDA j : acc[j].suggested_product = sugg[i].suggested_product)
         IN  UniqueSuggestions(sugg, i + 1,
                IF at = <<>> THEN Append(acc, sugg[i])
                ELSE IF sugg[i].similarity_score > acc[at[1]].similarity_score
                THEN [acc EXCEPT ![at[1]] = sugg[i]]
                ELSE acc)

\* suggest_product_corrections without the final [:max_suggestions]
NLPSuggestProductCorrectionsUncut(raw, max_suggestions, products, names) ==
    IF products = <<>> THEN <<>>
    ELSE SortedBy(UniqueSuggestions(
             AllSuggestions(SelectSeq(raw, LAMBDA f : FragLen(f) > 3), 1,
                            products, names, max_suggestions),
             1, <<>>), "similarity_score")

\* NLPProcessor.suggest_product_corrections(message, max_suggestions); a phrase
\* is a run of words of more than three characters
NLPSuggestProductCorrections(raw, max_suggestions, products, names) ==
    IF products = <<>> THEN <<>>
    ELSE Take(SortedBy(UniqueSuggestions(
                  AllSuggestions(SelectSeq(raw, LAMBDA f : FragLen(f) > 3), 1,
                                 products, names, max_suggestions),
                  1, <<>>), "similarity_score"),
              max_suggestions)

\* validate_parsed_data forgetting "is_valid = False" in its coordinates branch
ValidationResultForgetful(coordinates, products, confidence, suggestions) ==
    [is_valid |-> products # <<>>,
     warnings |->
        [j \in DOMAIN SelectSeq(products, LAMBDA p : p.quantity <= 0) |->
            "Cantidad no válida"] \o
        (IF confidence < Pct(50)
         THEN <<"Confianza baja en el parsing del mensaje">> ELSE <<>>),
     errors |->
        (IF ~IsSome(coordinates)
         THEN <<"No se encontraron coordenadas válidas">> ELSE <<>>) \o
        (IF products = <<>>
         THEN <<"No se encontraron productos válidos">> ELSE <<>>),
     suggested_corrections |-> IF products = <<>> THEN suggestions ELSE <<>>]

\* the report validate_parsed_data builds from the coordinates, the products
\* and the confidence of the dict; suggestions is what suggestion mode returns
\* when it is called
ValidationResult(coordinates, products, confidence, suggestions) ==
    [is_valid |-> IsSome(coordinates) /\ products # <<>>,
     warnings |->
        [j \in DOMAIN SelectSeq(products, LAMBDA p : p.quantity <= 0) |->
            "Cantidad no válida"] \o
        (IF confidence < Pct(50)
         THEN <<"Confianza baja en el parsing del mensaje">> ELSE <<>>),
     errors |->
        (IF ~IsSome(coordinates)
         THEN <<"No se encontraron coordenadas válidas">> ELSE <<>>) \o
        (IF products = <<>>
         THEN <<"No se encontraron productos válidos">> ELSE <<>>),
     suggested_corrections |-> IF products = <<>> THEN suggestions ELSE <<>>]

\* validate_parsed_data storing the suggestions as the products of the dict
NLPValidateParsedDataAdding(parsed_data, products_cache, names) ==
    [parsed_data |->
        IF "products" \in DOMAIN parsed_data /\ parsed_data.products = <<>>
        THEN [parsed_data EXCEPT !.products =
                 NLPSuggestProductCorrections(parsed_data.raw_message, 3,
                                              products_cache, names)]
        ELSE parsed_data,
     report |-> ValidationResult(
         Get(parsed_data, "coordinates", None),
         Get(parsed_data, "products", <<>>),
         Get(parsed_data, "confidence", 0),
         NLPSuggestProductCorrections(Get(parsed_data, "raw_message", <<>>), 3,
                                      products_cache, names))]

\* NLPProcessor.validate_parsed_data: the dict it was given as the call leaves
\* it, and the report it returns
NLPValidateParsedData(parsed_data, products_cache, names) ==
    [parsed_data |-> parsed_data,
     report |-> ValidationResult(
         Get(parsed_data, "coordinates", None),
         Get(parsed_data, "products", <<>>),
         Get(parsed_data, "confidence", 0),
         NLPSuggestProductCorrections(Get(parsed_data, "raw_message", <<>>), 3,
                                      products_cache, names))]

\* NLPProcessor._load_products on the catalogue state self = [products_cache,
\* product_names, product_embeddings]; query is what the database query does:
\* [raises, rows]
NLPLoadProducts(self, query) ==
    IF query.raises THEN [self EXCEPT !.products_cache = <<>>]
    ELSE LET source == query.rows IN
         [products_cache |-> [j \in DOMAIN source |-> CacheEntry(source[j])],
          product_names |-> self.product_names \o
                            [j \in DOMAIN source |-> Lower(source[j].name)],
          product_embeddings |->
              IF source # <<>> THEN Some([j \in DOMAIN source |-> source[j].id])
              ELSE self.product_embeddings]


-----------------------------------------------------------------------------
(* CoordinatesExtractor (utils/coordinates_extractor.py).                   *)
(*                                                                         *)
(* The text is not cleaned.  Further fragment kinds:                        *)
(*   share     a maps.app.goo.gl link, a = its identity                     *)
(* The cache maps the identity of a short link to coordinates or None (the  *)
(* link is not a key).                                                      *)

\* CoordinatesExtractor._validate_coordinates
CEValidateCoordinates(lat, lng) ==
    IF ~(ServiceLatMin <= lat /\ lat <= ServiceLatMax) THEN FALSE
    ELSE IF ~(ServiceLngMin <= lng /\ lng <= ServiceLngMax) THEN FALSE
    ELSE TRUE

\* the body under one "if match:": float() of both groups, then validation
CETry(match, lat) ==
    IF ~IsSome(match) THEN None
    ELSE IF ~FloatOf(lat).ok \/ ~FloatOf(Val(match).b).ok THEN None
    ELSE IF CEValidateCoordinates(lat, Val(match).b) THEN <<lat, Val(match).b>>
    ELSE None

\* last element of a sequence, optional (a greedy ".*" before the group)
Last(s) == IF s = <<>> THEN None ELSE Some(s[Len(s)])

\* CoordinatesExtractor._extract_from_direct_url: ?q=, then @, then ll=
CEExtractFromDirectUrl(m) ==
    LET m1 == FirstFrag(m, {"maps_q"})
        m2 == Last(Kinds(m, {"maps_at"}))
        m3 == Last(Kinds(m, {"maps_ll"}))
        c1 == CETry(m1, IF IsSome(m1) THEN Val(m1).a ELSE 0)
        c2 == CETry(m2, IF IsSome(m2) THEN Val(m2).a ELSE 0)
        c3 == CETry(m3, IF IsSome(m3) THEN Val(m3).a ELSE 0)
    IN  IF IsSome(c1) THEN c1 ELSE IF IsSome(c2) THEN c2 ELSE c3

\* CoordinatesExtractor._extract_from_text: "lat: x, lng: y", then
\* simple_coordinates, then decimal_coordinates
CEExtractFromText(m) ==
    LET m1 == FirstFrag(m, {"latlng"})
        m2 == FirstFrag(m, AdjacentPairs \cup MapLinks)
        c1 == CETry(m1, IF IsSome(m1) THEN Val(m1).a ELSE 0)
        c2 == CETry(m2, IF IsSome(m2) THEN BareLat(Val(m2)) ELSE 0)
        \* decimal_coordinates finds the same two numbers in the same place
        c3 == CETry(m2, IF IsSome(m2) THEN BareLat(Val(m2)) ELSE 0)
    IN  IF IsSome(c1) THEN c1 ELSE IF IsSome(c2) THEN c2 ELSE c3

\* CoordinatesExtractor._expand_short_url: response is what session.head did
\* with the link: [error, status, url]; error is "request" for a
\* requests.RequestException, which the method catches, and "other" for any
\* other exception, which it does not: [raises, value]
CEExpandShortUrl(response) ==
    IF response.error = "other" THEN [raises |-> TRUE, value |-> None]
    ELSE IF response.error = "request" THEN [raises |-> FALSE, value |-> None]
    ELSE IF response.status = 200
    THEN [raises |-> FALSE, value |-> CEExtractFromDirectUrl(response.url)]
    ELSE [raises |-> FALSE, value |-> None]

\* the outcome out of the rest of the loop, after link u was requested
CERequested(u, out) == [out EXCEPT !.issued = <<u>> \o out.issued]

\* the loop of _extract_from_short_url over short_urls from index i:
\* [value, cache, issued, raises]
RECURSIVE CEShortUrlsFrom(_, _, _, _)
CEShortUrlsFrom(urls, i, kept, net) ==
    IF i > Len(urls)
    THEN [value |-> None, cache |-> kept, issued |-> <<>>, raises |-> FALSE]
    ELSE IF IsSome(kept[urls[i]])
    THEN [value |-> kept[urls[i]], cache |-> kept, issued |-> <<>>,
          raises |-> FALSE]
    ELSE LET coords == CEExpandShortUrl(net[urls[i]])
         IN  IF coords.raises
             THEN [value |-> None, cache |-> kept, issued |-> <<urls[i]>>,
                   raises |-> TRUE]
             ELSE IF IsSome(coords.value)
             THEN [value |-> coords.value,
                   cache |-> [kept EXCEPT ![urls[i]] = coords.value],
                   issued |-> <<urls[i]>>, raises |-> FALSE]
             ELSE CERequested(urls[i], CEShortUrlsFrom(urls, i + 1, kept, net))

\* CoordinatesExtractor._extract_from_short_url
CEExtractFromShortUrl(m, kept, net) ==
    LET m1 == FirstFrag(m, {"short"})
        m2 == FirstFrag(m, {"share"})
        short_urls == (IF IsSome(m1) THEN <<Val(m1).a>> ELSE <<>>) \o
                      (IF IsSome(m2) THEN <<Val(m2).a>> ELSE <<>>)
    IN  CEShortUrlsFrom(short_urls, 1, kept, net)

\* cancun_locations, in the order of the dict
CancunLocations ==
    << <<211619, -868515>>, <<211692, -868980>>, <<210365, -868770>>,
       <<211619, -868515>>, <<211692, -868980>>, <<211325, -867739>>,
       <<212417, -867468>>, <<211653, -868467>>, <<211613, -868472>> >>

\* CoordinatesExtractor._extract_cancun_specific: the first location of the
\* dict that the text names
CEExtractCancunSpecific(m) ==
    LET named == {f.a : f \in {m[i] : i \in {j \in DOMAIN m : m[j].k = "place"}}}
    IN  IF named = {} THEN None
        ELSE CancunLocations[CHOOSE n \in named : \A o \in named : n <= o]

\* the outcome of extract_coordinates when no short link was looked at
CEWithoutRequest(value, kept) ==
    [value |-> value, cache |-> kept, issued |-> <<>>, raises |-> FALSE]

\* the end of extract_coordinates, on what _extract_from_short_url gave (c3)
CEAfterShortUrl(m, c3) ==
    IF c3.raises \/ IsSome(c3.value) THEN c3
    ELSE [c3 EXCEPT !.value = CEExtractCancunSpecific(m)]

\* extract_coordinates trying the short links before the text
CEExtractCoordinatesShortFirst(m, kept, net) ==
    IF m = <<>> THEN CEWithoutRequest(None, kept)
    ELSE LET c1 == CEExtractFromDirectUrl(m)
             c2 == CEExtractFromText(m)
             c3 == CEExtractFromShortUrl(m, kept, net)
         IN  IF IsSome(c1) THEN CEWithoutRequest(c1, kept)
             ELSE IF c3.raises \/ IsSome(c3.value) THEN c3
             ELSE IF IsSome(c2) THEN [c3 EXCEPT !.value = c2]
             ELSE CEAfterShortUrl(m, c3)

\* CoordinatesExtractor.extract_coordinates: [value, cache, issued, raises]
CEExtractCoordinates(m, kept, net) ==
    IF m = <<>> THEN CEWithoutRequest(None, kept)
    ELSE LET c1 == CEExtractFromDirectUrl(m)
             c2 == CEExtractFromText(m)
         IN  IF IsSome(c1) THEN CEWithoutRequest(c1, kept)
             ELSE IF IsSome(c2) THEN CEWithoutRequest(c2, kept)
             ELSE CEAfterShortUrl(m, CEExtractFromShortUrl(m, kept, net))


-----------------------------------------------------------------------------
(* Inputs.                                                                  *)

\* the subsequence of s at the indices I
RECURSIVE Pick(_, _)
Pick(s, I) ==
    IF s = <<>> THEN <<>>
    ELSE LET front == Pick(SubSeq(s, 1, Len(s) - 1), I)
         IN  IF Len(s) \in I THEN Append(front, s[Len(s)]) ELSE front

SeqsUpTo(F, n) == UNION {[1..k -> F] : k \in 0..n}

SubSeqsOf(s) == {Pick(s, I) : I \in SUBSET (1..Len(s))}

WAFragments ==
    {Frag("pair", c[1], c[2]) : c \in {InBox, MexicoCity, NewYork}}
    \cup {Frag("latlng", InBox[1], InBox[2]), Frag("maps_q", OnEdge[1], OnEdge[2]),
          Frag("ubicacion", MexicoCity[1], MexicoCity[2])}
    \cup {Frag("nombre", 2, 0), Frag("cliente", 123, 3), Frag("hash", 123, 0),
          Frag("tel", 8, 0), Frag("celular", 10, 0)}
    \cup {Frag("qty_first", 0, 1), Frag("qty_first", 1500, 1),
          Frag("name_first", 3, 2), Frag("cantidad", 2, 0)}
    \cup {Frag("ref", 4, 0), Frag("entrega", 1030, 0), Frag("entre", 1000, 1200),
          Frag("nota", 15, 0)}
    \cup {Frag("dollar", 5, 0), Frag("dollar", 0, 0), Frag("total", 20000, 0),
          Frag("pesos", 250, 0), Frag("method", 2, 0)}
    \cup {Frag("chatter", 28, 0)}

\* a complete order: coordinates, name, telephone, client number, product,
\* reference, total and payment method
WAFullOrder ==
    << Frag("pair", InBox[1], InBox[2]), Frag("nombre", 9, 0), Frag("tel", 10, 0),
       Frag("hash", 123, 0), Frag("qty_first", 2, 1), Frag("ref", 17, 0),
       Frag("total", 100, 0), Frag("method", 1, 0) >>

\* messages in which two fragments meet the same extractor
WAScenarios ==
    {<<Frag("pair", NewYork[1], NewYork[2]), Frag("pair", MexicoCity[1], MexicoCity[2])>>,
     <<Frag("pair", MexicoCity[1], MexicoCity[2]), Frag("pair", InBox[1], InBox[2])>>,
     <<Frag("qty_first", 1500, 1), Frag("dollar", 5, 0)>>,
     <<Frag("name_first", 3, 2), Frag("qty_first", 2, 1)>>,
     <<Frag("cliente", 123, 3), Frag("celular", 10, 0)>>,
     <<Frag("entre", 1000, 1200), Frag("total", 20000, 0)>>}

\* the messages parse_message is given: every message of at most MaxFragments
\* fragments, the complete order with any of its lines left out, and the
\* scenarios
WAMessages ==
    SeqsUpTo(WAFragments, MaxFragments) \cup SubSeqsOf(WAFullOrder) \cup WAScenarios

\* the messages parse_whatsapp_message is given
NLPFragments ==
    {Frag("pair", InBox[1], InBox[2]), Frag("pair", MexicoCity[1], MexicoCity[2]),
     Frag("pair", Malformed, InBox[2]), Frag("maps_q", OnEdge[1], OnEdge[2]),
     Frag("short", 1, 0)}
    \cup {Frag("cliente", 123, 0), Frag("hash", 45, 0), Frag("number", 0, 0)}
    \cup {Frag("cantidad", 1500, 0), Frag("piezas", 2, 0), Frag("piezas", 5000, 0)}
    \cup {Frag("ref", 0, 0), Frag("ref", 17, 0), Frag("total", 100, 0),
          Frag("total", 0, 0), Frag("pesos", 250, 0)}
    \cup {Frag("mention", 1, 1), Frag("mention", 1, 2), Frag("mention", 1, 3),
          Frag("mention", 1, 4), Frag("mention", 2, 2), Frag("mention", 3, 2)}
    \cup {Frag("brandw", 1, 20), Frag("brandw", 1, 5)}
    \cup {Frag("chatter", 60, 0), Frag("chatter", 2, 0)}

NLPFullOrder ==
    << Frag("mention", 1, 2), Frag("piezas", 2, 0), Frag("pair", InBox[1], InBox[2]),
       Frag("cliente", 123, 0), Frag("ref", 17, 0), Frag("total", 100, 0) >>

NLPScenarios ==
    {<<Frag("mention", 1, 3), Frag("piezas", 5000, 0)>>,
     <<Frag("mention", 1, 2), Frag("cantidad", 1500, 0)>>,
     <<Frag("pair", InBox[1], InBox[2]), Frag("mention", 1, 2)>>,
     <<Frag("mention", 1, 2), Frag("number", 0, 0)>>,
     <<Frag("mention", 1, 3), Frag("mention", 2, 2)>>,
     <<Frag("brandw", 1, 20), Frag("mention", 1, 1)>>,
     <<Frag("mention", 1, 4), Frag("mention", 3, 4)>>,
     <<Frag("mention", 1, 4), Frag("mention", 2, 4), Frag("mention", 3, 4),
       Frag("mention", 4, 4)>>,
     <<Frag("mention", 1, 2), Frag("number", 0, 0), Frag("pair", InBox[1], InBox[2])>>,
     <<Frag("pair", MexicoCity[1], MexicoCity[2]), Frag("maps_q", OnEdge[1], OnEdge[2])>>,
     <<Frag("mention", 1, 2), Frag("chatter", 60, 0), Frag("cantidad", 5, 0)>>}

NLPMessages ==
    SeqsUpTo(NLPFragments, MaxFragments) \cup SubSeqsOf(NLPFullOrder)
    \cup NLPScenarios

\* the identities of the short links
ShortUrls == {1, 2}

\* the texts extract_coordinates is given
CEFragments ==
    {Frag("maps_q", InBox[1], InBox[2]), Frag("maps_q", Malformed, InBox[2]),
     Frag("maps_at", MexicoCity[1], MexicoCity[2]),
     Frag("maps_at", OnEdge[1], OnEdge[2]), Frag("maps_ll", InBox[1], InBox[2])}
    \cup {Frag("latlng", InBox[1], InBox[2]), Frag("latlng", NewYork[1], NewYork[2]),
          Frag("pair", InBox[1], InBox[2]), Frag("pair", MexicoCity[1], MexicoCity[2]),
          Frag("pair", Malformed, InBox[2])}
    \cup {Frag("short", 1, 0), Frag("share", 2, 0)}
    \cup {Frag("place", n, 0) : n \in {1, 3, 7}}
    \cup {Frag("chatter", 28, 0)}

CEScenarios ==
    {<<Frag("short", 1, 0), Frag("share", 2, 0)>>,
     <<Frag("pair", MexicoCity[1], MexicoCity[2]), Frag("pair", InBox[1], InBox[2])>>,
     <<Frag("maps_at", MexicoCity[1], MexicoCity[2]), Frag("maps_at", OnEdge[1], OnEdge[2])>>,
     <<Frag("maps_at", OnEdge[1], OnEdge[2]), Frag("maps_at", MexicoCity[1], MexicoCity[2])>>,
     <<Frag("pair", MexicoCity[1], MexicoCity[2]), Frag("place", 3, 0)>>,
     <<Frag("place", 7, 0), Frag("place", 3, 0)>>,
     <<Frag("short", 1, 0), Frag("place", 1, 0)>>,
     <<Frag("short", 1, 0), Frag("pair", InBox[1], InBox[2])>>,
     <<Frag("maps_q", Malformed, InBox[2]), Frag("latlng", InBox[1], InBox[2])>>}

CEMessages == SeqsUpTo(CEFragments, MaxFragments) \cup CEScenarios

\* what session.head does with a short link: a RequestException (timeout,
\* connection failure), a status other than 200, a final URL with or without
\* coordinates of the service area, an exception of another class
Responses ==
    {[error |-> "request", status |-> 0, url |-> <<>>],
     [error |-> "none", status |-> 404, url |-> <<Frag("maps_at", InBox[1], InBox[2])>>],
     [error |-> "none", status |-> 200, url |-> <<Frag("maps_at", InBox[1], InBox[2])>>],
     [error |-> "none", status |-> 200,
      url |-> <<Frag("maps_at", MexicoCity[1], MexicoCity[2])>>],
     [error |-> "none", status |-> 200, url |-> <<Frag("chatter", 30, 0)>>],
     [error |-> "other", status |-> 0, url |-> <<>>]}

\* what the query of _load_products does on a table: it returns the active
\* rows, or it raises
QueriesOn(table) ==
    {[raises |-> FALSE, rows |-> ActiveRows(table)], [raises |-> TRUE, rows |-> <<>>]}

\* NLPProcessor.__init__: nothing loaded yet
NLPNew == [products_cache |-> <<>>, product_names |-> <<>>,
           product_embeddings |-> None]

-----------------------------------------------------------------------------
(* The state machine: one request at a time.                                *)

\* the threads of the extractor
Workers == 1..MaxWorkers

\* a thread outside _extract_from_short_url
Resting == [at |-> "idle", url |-> 0, coords |-> None]

\* the products the stock and order endpoints are followed on
Stocked == {1, 2}

\* current_stock of the products before the first request
OpeningStock == [id \in Stocked |-> 2]

\* the tables of the stock and order endpoints before the first request
InitShop ==
    /\ stock = OpeningStock
    /\ movements = {}
    /\ sales = <<>>

Init ==
    /\ pc = "idle"
    /\ op = "none"
    /\ message = <<>>
    /\ result = None
    /\ validation = None
    /\ raised = FALSE
    /\ given = None
    /\ db \in Databases
    /\ \E query \in QueriesOn(db) : nlp = NLPLoadProducts(NLPNew, query)
    /\ cache = [u \in ShortUrls |-> None]
    /\ issued = <<>>
    /\ loading = None
    /\ workers = [t \in Workers |-> Resting]
    /\ InitShop

\* a caller invokes operation o on the text raw
Call(o, raw) ==
    /\ pc = "idle"
    /\ pc' = "called"
    /\ op' = o
    /\ message' = raw
    /\ UNCHANGED <<workers, shop, result, validation, raised, given, nlp, cache, issued,
                   loading, db>>

\* WhatsAppParser.parse_message(message) runs and returns; now is the value
\* datetime.now() gives it
ParseMessage(fault, now) ==
    /\ pc = "called" /\ op = "parse_message"
    /\ LET out == WAParseMessage(message, fault, now)
       IN  /\ result' = out.value
           /\ raised' = out.raised
           /\ given' = out.given
    /\ pc' = "returned"
    /\ UNCHANGED <<workers, shop, op, message, validation, nlp, cache, issued, loading, db>>

\* NLPProcessor.parse_whatsapp_message(message) runs and returns
ParseWhatsappMessage(fault) ==
    /\ pc = "called" /\ op = "parse_whatsapp_message"
    /\ LET out == NLPParseWhatsappMessage(message, fault, nlp.products_cache,
                                          nlp.product_embeddings)
       IN  /\ result' = out.value
           /\ raised' = out.raised
    /\ pc' = "parsed"
    /\ UNCHANGED <<workers, shop, op, message, validation, given, nlp, cache, issued, loading,
                   db>>

\* NLPProcessor.validate_parsed_data(parsed_data) on the dict just parsed
ValidateParsedData ==
    /\ pc = "parsed" /\ ~raised
    /\ LET out == NLPValidateParsedData(result, nlp.products_cache,
                                        nlp.product_names)
       IN  /\ given' = Some(result)
           /\ result' = out.parsed_data
           /\ validation' = Some(out.report)
    /\ pc' = "returned"
    /\ UNCHANGED <<workers, shop, op, message, raised, nlp, cache, issued, loading, db>>

\* CoordinatesExtractor.extract_coordinates(text) runs and returns; net is
\* what the network does with each short link
ExtractCoordinates(net) ==
    /\ pc = "called" /\ op = "extract_coordinates"
    /\ LET out == CEExtractCoordinates(message, cache, net)
       IN  /\ result' = out.value
           /\ cache' = out.cache
           /\ issued' = out.issued
           /\ raised' = out.raises
    /\ pc' = "returned"
    /\ UNCHANGED <<workers, shop, op, message, validation, given, nlp, loading, db>>

\* NLPProcessor.refresh_products_cache()
RefreshProductsCache(query) ==
    /\ pc = "idle" /\ loading = None
    /\ Len(nlp.product_names) + Len(query.rows) <= MaxNames
    /\ nlp' = NLPLoadProducts(nlp, query)
    /\ UNCHANGED <<workers, shop, pc, op, message, result, validation, raised, given, cache,
                   issued, loading, db>>

\* CoordinatesExtractor.clear_cache()
ClearCache ==
    /\ pc = "idle"
    /\ cache' = [u \in ShortUrls |-> None]
    /\ UNCHANGED <<workers, shop, pc, op, message, result, validation, raised, given, nlp,
                   issued, loading, db>>

\* the caller has consumed the result; nothing of the request is kept
Done ==
    /\ pc = "returned"
    /\ pc' = "idle"
    /\ op' = "none"
    /\ message' = <<>>
    /\ result' = None
    /\ validation' = None
    /\ raised' = FALSE
    /\ given' = None
    /\ issued' = <<>>
    /\ UNCHANGED <<workers, shop, nlp, cache, loading, db>>

Next ==
    \/ \E raw \in WAMessages : Call("parse_message", raw)
    \/ \E raw \in NLPMessages : Call("parse_whatsapp_message", raw)
    \/ \E raw \in CEMessages : Call("extract_coordinates", raw)
    \/ \E fault \in WAFaults, now \in 0..MaxClock : ParseMessage(fault, now)
    \/ \E fault \in NLPFaults : ParseWhatsappMessage(fault)
    \/ ValidateParsedData
    \/ \E net \in [ShortUrls -> Responses] : ExtractCoordinates(net)
    \/ \E query \in QueriesOn(db) : RefreshProductsCache(query)
    \/ ClearCache
    \/ Done

Spec == Init /\ [][Next]_vars

-----------------------------------------------------------------------------
(* The catalogue index under change: the products endpoints                 *)
(* (api/products.py) change the table, _load_products runs statement by     *)
(* statement, and /parse-whatsapp requests are served in between.           *)

\* create_product: a product that has no row gets one (is_active defaults to
\* True); nothing but the table is written
CreateProduct(id) ==
    /\ db[id] = "absent"
    /\ db' = [db EXCEPT ![id] = "active"]
    /\ UNCHANGED <<workers, shop, pc, op, message, result, validation, raised, given, nlp, cache,
                   issued, loading>>

\* update_product: is_active of an existing product is set; nothing but the
\* table is written
UpdateProduct(id, is_active) ==
    /\ db[id] # "absent"
    /\ db' = [db EXCEPT ![id] = IF is_active THEN "active" ELSE "inactive"]
    /\ db' # db
    /\ UNCHANGED <<workers, shop, pc, op, message, result, validation, raised, given, nlp, cache,
                   issued, loading>>

\* _load_products, its query and, when the query has not raised,
\* "self.products_cache = {}"; old is the index the call started on
LoadProductsQuery(query) ==
    /\ loading = None
    /\ Len(nlp.product_names) + Len(query.rows) <= MaxNames
    /\ nlp' = IF query.raises THEN nlp ELSE [nlp EXCEPT !.products_cache = <<>>]
    /\ loading' = Some([old |-> nlp, raises |-> query.raises, rows |-> query.rows,
                        next |-> 1])
    /\ UNCHANGED <<workers, shop, pc, op, message, result, validation, raised, given, cache,
                   issued, db>>

\* _load_products, one turn of its loop: the entry of the next product is
\* stored and its name appended
LoadProductsRow ==
    /\ IsSome(loading) /\ ~Val(loading).raises
    /\ Val(loading).next <= Len(Val(loading).rows)
    /\ LET p == Val(loading).rows[Val(loading).next]
       IN  nlp' = [nlp EXCEPT
                      !.products_cache = Append(nlp.products_cache, CacheEntry(p)),
                      !.product_names = Append(nlp.product_names, Lower(p.name))]
    /\ loading' = Some([Val(loading) EXCEPT !.next = Val(loading).next + 1])
    /\ UNCHANGED <<workers, shop, pc, op, message, result, validation, raised, given, cache,
                   issued, db>>

\* _load_products after its loop: the embeddings are fitted when there is a
\* product text, and the call is over
LoadProductsFit ==
    /\ IsSome(loading) /\ ~Val(loading).raises
    /\ Val(loading).next > Len(Val(loading).rows)
    /\ LET rows == Val(loading).rows
       IN  nlp' = [nlp EXCEPT !.product_embeddings =
                      IF rows # <<>> THEN Some([j \in DOMAIN rows |-> rows[j].id])
                      ELSE nlp.product_embeddings]
    /\ loading' = None
    /\ UNCHANGED <<workers, shop, pc, op, message, result, validation, raised, given, cache,
                   issued, db>>

\* _load_products, its except clause: products_cache is emptied and the call
\* is over
LoadProductsExcept ==
    /\ IsSome(loading) /\ Val(loading).raises
    /\ nlp' = [nlp EXCEPT !.products_cache = <<>>]
    /\ loading' = None
    /\ UNCHANGED <<workers, shop, pc, op, message, result, validation, raised, given, cache,
                   issued, db>>

\* the messages sent to /parse-whatsapp while the catalogue changes
IndexMessages ==
    {<<Frag("mention", 1, 1)>>, <<Frag("mention", 3, 3)>>, <<Frag("colr", 0, 0)>>}

\* the processor was built on a table that holds the products below
\* MaxProducts
InitIndex ==
    /\ pc = "idle"
    /\ op = "none"
    /\ message = <<>>
    /\ result = None
    /\ validation = None
    /\ raised = FALSE
    /\ given = None
    /\ db = [id \in DOMAIN Catalogue |->
                IF id < MaxProducts THEN "active" ELSE "absent"]
    /\ \E query \in QueriesOn(db) : nlp = NLPLoadProducts(NLPNew, query)
    /\ cache = [u \in ShortUrls |-> None]
    /\ issued = <<>>
    /\ loading = None
    /\ workers = [t \in Workers |-> Resting]
    /\ InitShop

NextIndex ==
    \/ \E id \in 1..MaxProducts : CreateProduct(id)
    \/ \E id \in 1..MaxProducts, is_active \in BOOLEAN : UpdateProduct(id, is_active)
    \/ \E query \in QueriesOn(db) : LoadProductsQuery(query)
    \/ LoadProductsRow
    \/ LoadProductsFit
    \/ LoadProductsExcept
    \/ \E raw \in IndexMessages : Call("parse_whatsapp_message", raw)
    \/ ParseWhatsappMessage("none")
    \/ ValidateParsedData
    \/ Done

SpecIndex == InitIndex /\ [][NextIndex]_vars

-----------------------------------------------------------------------------
(* The short-link cache under threads: several callers are inside           *)
(* _extract_from_short_url of one extractor, each on a text with one short  *)
(* link, and their statements interleave.                                   *)

\* what session.head does with a short link when two resolutions of one link
\* may end at different places of the service area
CacheResponses ==
    Responses \cup
    {[error |-> "none", status |-> 200, url |-> <<Frag("maps_at", OnEdge[1], OnEdge[2])>>]}

\* the quantities left alone by the threads of the extractor
CacheFrame ==
    UNCHANGED <<pc, op, message, result, validation, raised, given, nlp, issued,
                loading, db, shop>>

\* thread t enters the loop of _extract_from_short_url with the link url
WorkerEnter(t, url) ==
    /\ workers[t].at = "idle"
    /\ workers' = [workers EXCEPT ![t] = [at |-> "check", url |-> url,
                                          coords |-> None]]
    /\ UNCHANGED cache
    /\ CacheFrame

\* "if url in self.cache: return self.cache[url]"
WorkerCheck(t) ==
    /\ workers[t].at = "check"
    /\ workers' = [workers EXCEPT ![t] =
                      IF IsSome(cache[workers[t].url]) THEN Resting
                      ELSE [workers[t] EXCEPT !.at = "expand"]]
    /\ UNCHANGED cache
    /\ CacheFrame

\* "coords = self._expand_short_url(url)" and "if coords:"; without
\* coordinates, or with an exception, the thread leaves the method
WorkerExpand(t, response) ==
    /\ workers[t].at = "expand"
    /\ LET coords == CEExpandShortUrl(response)
       IN  workers' = [workers EXCEPT ![t] =
                          IF coords.raises \/ ~IsSome(coords.value) THEN Resting
                          ELSE [workers[t] EXCEPT !.at = "store",
                                                  !.coords = coords.value]]
    /\ UNCHANGED cache
    /\ CacheFrame

\* "self.cache[url] = coords" and "return coords"
WorkerStore(t) ==
    /\ workers[t].at = "store"
    /\ cache' = [cache EXCEPT ![workers[t].url] = workers[t].coords]
    /\ workers' = [workers EXCEPT ![t] = Resting]
    /\ CacheFrame

NextCache ==
    \/ \E t \in Workers, url \in ShortUrls : WorkerEnter(t, url)
    \/ \E t \in Workers : WorkerCheck(t)
    \/ \E t \in Workers, response \in CacheResponses : WorkerExpand(t, response)
    \/ \E t \in Workers : WorkerStore(t)
    \/ ClearCache

SpecCache == Init /\ [][NextCache]_vars

-----------------------------------------------------------------------------
(* The stock endpoints (api/products.py update_stock, api/inventory.py      *)
(* bulk_update_stock) and the order endpoints (api/orders.py create_order,  *)
(* create_order_from_whatsapp) on the tables Product, StockMovement, Sale.  *)

\* the integers a request can carry as quantity or new_stock
Quantities == (0 - MaxStock)..MaxStock

\* the quantities left alone by the stock and order endpoints
ShopFrame ==
    UNCHANGED <<pc, op, message, result, validation, raised, given, nlp, cache,
                issued, loading, db, workers>>

\* update_stock: new_stock as the handler computes it
NewStock(previous_stock, movement_type, quantity) ==
    IF movement_type = "in" THEN previous_stock + quantity
    ELSE IF movement_type = "out" THEN previous_stock - quantity
    ELSE quantity

\* update_stock: the StockMovement row the handler adds
StockMovement(id, movement_type, quantity, previous_stock, new_stock) ==
    [product_id |-> id,
     movement_type |-> movement_type,
     quantity |-> IF movement_type # "adjustment" THEN Abs(quantity)
                  ELSE Abs(new_stock - previous_stock),
     previous_stock |-> previous_stock,
     new_stock |-> new_stock]

\* POST /products/<id>/stock with quantity and type; an 'out' that would
\* leave less than nothing is answered 400 and changes nothing
UpdateStock(id, movement_type, quantity) ==
    LET previous_stock == stock[id]
        new_stock == NewStock(previous_stock, movement_type, quantity)
        movement == StockMovement(id, movement_type, quantity, previous_stock,
                                  new_stock)
    IN  /\ new_stock \in Quantities
        /\ Cardinality(movements \cup {movement}) <= MaxMovements
        /\ IF movement_type = "out" /\ new_stock < 0
           THEN UNCHANGED <<stock, movements>>
           ELSE /\ stock' = [stock EXCEPT ![id] = new_stock]
                /\ movements' = movements \cup {movement}
        /\ UNCHANGED sales
        /\ ShopFrame

\* bulk_update_stock, its loop from update i on: the session after it
\* [stock, movements, failed]; an update of an unknown product fails
RECURSIVE BulkFrom(_, _, _)
BulkFrom(updates, i, session) ==
    IF i > Len(updates) THEN session
    ELSE LET update == updates[i]
         IN  IF update.product_id \notin DOMAIN session.stock
             THEN BulkFrom(updates, i + 1, [session EXCEPT !.failed = TRUE])
             ELSE LET previous_stock == session.stock[update.product_id]
                  IN  BulkFrom(updates, i + 1,
                        [session EXCEPT
                            !.stock[update.product_id] = update.new_stock,
                            !.movements = @ \cup
                                {StockMovement(update.product_id, "adjustment",
                                               update.new_stock, previous_stock,
                                               update.new_stock)}])

\* POST /inventory/bulk-update: commit when no update failed, else rollback
BulkUpdateStock(updates) ==
    LET session == BulkFrom(updates, 1, [stock |-> stock, movements |-> movements,
                                         failed |-> FALSE])
    IN  /\ Cardinality(session.movements) <= MaxMovements
        /\ IF session.failed
           THEN UNCHANGED <<stock, movements>>
           ELSE /\ stock' = session.stock
                /\ movements' = session.movements
        /\ UNCHANGED sales
        /\ ShopFrame

\* the updates of a bulk request: one or two, of a product of the table or
\* of the unknown product 0
BulkUpdates ==
    LET one == [product_id : Stocked \cup {0}, new_stock : Quantities]
    IN  {<<u>> : u \in one}
        \cup {<<u, v>> : u \in one, v \in [product_id : Stocked, new_stock : {0, 1}]}

NextStock ==
    \/ \E id \in Stocked, movement_type \in {"in", "out", "adjustment"},
          quantity \in Quantities : UpdateStock(id, movement_type, quantity)
    \/ \E updates \in BulkUpdates : BulkUpdateStock(updates)

SpecStock == Init /\ [][NextStock]_vars

\* the Sale row of an order
Sale(id, quantity, source) ==
    [product_id |-> id, quantity |-> quantity, source |-> source]

\* POST /orders: answered 400 when current_stock < quantity, else the sale is
\* stored
CreateOrder(id, quantity) ==
    /\ Len(sales) < MaxSales
    /\ sales' = IF stock[id] < quantity THEN sales
                ELSE Append(sales, Sale(id, quantity, "manual"))
    /\ UNCHANGED <<stock, movements>>
    /\ ShopFrame

\* create_order_from_whatsapp, its loop from product i on: the sales added
RECURSIVE OrdersFrom(_, _)
OrdersFrom(products, i) ==
    IF i > Len(products) THEN <<>>
    ELSE LET product_data == products[i]
         IN  (IF product_data.product_id \notin DOMAIN stock THEN <<>>
              ELSE IF stock[product_data.product_id] < product_data.quantity
              THEN <<>>
              ELSE << Sale(product_data.product_id, product_data.quantity,
                           "whatsapp") >>)
             \o OrdersFrom(products, i + 1)

\* POST /orders/create-from-whatsapp with parsed_data: answered 400 without
\* coordinates or without products, else one sale for each product in stock
CreateOrderFromWhatsapp(coordinates, products) ==
    LET created_orders == IF ~IsSome(coordinates) \/ products = <<>> THEN <<>>
                          ELSE OrdersFrom(products, 1)
    IN  /\ Len(sales) + Len(created_orders) <= MaxSales
        /\ sales' = sales \o created_orders
        /\ UNCHANGED <<stock, movements>>
        /\ ShopFrame

\* the products of a parsed message: none, one or two, of a product of the
\* table or of the unknown product 0
ParsedProducts ==
    LET one == [product_id : Stocked \cup {0}, quantity : 1..MaxStock]
    IN  {<<>>} \cup {<<u>> : u \in one}
        \cup {<<u, v>> : u \in one, v \in [product_id : Stocked, quantity : {1, 2}]}

NextOrders ==
    \/ \E id \in Stocked, quantity \in Quantities : CreateOrder(id, quantity)
    \/ \E coordinates \in {None, InBox}, products \in ParsedProducts :
          CreateOrderFromWhatsapp(coordinates, products)

SpecOrders == Init /\ [][NextOrders]_vars

-----------------------------------------------------------------------------
(* Properties.                                                              *)

WAReturned == pc = "returned" /\ op = "parse_message"

NLPParsed == pc \in {"parsed", "returned"} /\ op = "parse_whatsapp_message"

NLPReturned == pc = "returned" /\ op = "parse_whatsapp_message"

CEReturned == pc = "returned" /\ op = "extract_coordinates"

\* C1: whatever the message and whatever an extractor does, raising included,
\* no exception reaches the caller: parse_message returns a ParsedOrder, and
\* parse_whatsapp_message followed by validate_parsed_data returns a parsed
\* dict and a validation report.
C1_NoThrow ==
    /\ op \in {"parse_message", "parse_whatsapp_message"} => ~raised
    /\ WAReturned => DOMAIN result = DOMAIN WAInitialOrder
    /\ NLPReturned =>
          /\ IsSome(given) /\ result = Val(given)
          /\ IsSome(validation)
          /\ DOMAIN Val(validation) =
                {"is_valid", "warnings", "errors", "suggested_corrections"}

\* an extractor of parse_whatsapp_message raised, and the caller holds the
\* dict and the report
C1_Witness ==
    NLPReturned /\ "error" \in DOMAIN result /\ IsSome(validation) /\ ~raised

\* C2: every result of a parse operation carries all its fields and the
\* original message, on every path, the path where a step raises included.
C2_FullyConstructed ==
    /\ WAReturned =>
          /\ DOMAIN result = DOMAIN WAInitialOrder
          /\ result.metadata.original_message = Some(message)
    /\ NLPParsed =>
          /\ DOMAIN result = DOMAIN NLPInitialData(message)
          /\ result.raw_message = message

\* C3: the confidence of every returned parse result lies in [0, 1].
C3_ConfidenceInUnitInterval ==
    (WAReturned \/ NLPParsed) => 0 <= result.confidence /\ result.confidence <= Unit

\* every category was extracted and the confidence is 1
C3_Witness == WAReturned /\ result.confidence = Unit /\ result.products # <<>>

\* C4: in every validation report is_valid is true exactly when the errors
\* list is empty, whatever the warnings.
C4_ValidIffNoErrors ==
    IsSome(validation) =>
        (Val(validation).is_valid <=> Val(validation).errors = <<>>)

\* a report that is valid although it carries a warning
C4_Witness ==
    /\ IsSome(validation)
    /\ Val(validation).is_valid
    /\ Val(validation).warnings # <<>>

\* the texts that report missing coordinates
CoordinateNotices ==
    {"No se encontraron coordenadas", "No se encontraron coordenadas de entrega",
     "No se encontraron coordenadas válidas"}

\* C5: a message with a matched product and no coordinates gets a
\* missing-coordinates warning, no error, and is_valid stays true.
C5_MissingCoordinatesWarn ==
    /\ (NLPReturned /\ "products" \in DOMAIN result /\ result.products # <<>>
        /\ ~IsSome(result.coordinates)) =>
          /\ Val(validation).is_valid
          /\ Val(validation).errors = <<>>
          /\ \E i \in DOMAIN Val(validation).warnings :
                Val(validation).warnings[i] \in CoordinateNotices
    /\ (WAReturned /\ IsSome(given) /\ result.products # <<>>
        /\ ~IsSome(result.coordinates)) =>
          /\ result.errors = <<>>
          /\ \E i \in DOMAIN result.warnings : result.warnings[i] \in CoordinateNotices

\* C6: with a non-empty product list suggested_corrections is empty; with an
\* empty one the report carries the missing-products error, is not valid, and
\* holds what suggestion mode returns, at most 3 entries.
C6_SuggestionNonInterference ==
    NLPReturned =>
        LET v == Val(validation)
            products == Get(Val(given), "products", <<>>)
        IN  /\ products # <<>> => v.suggested_corrections = <<>>
            /\ products = <<>> =>
                  /\ \E i \in DOMAIN v.errors :
                        v.errors[i] = "No se encontraron productos válidos"
                  /\ ~v.is_valid
                  /\ Len(v.suggested_corrections) <= 3
                  /\ v.suggested_corrections =
                        NLPSuggestProductCorrections(
                            Get(Val(given), "raw_message", <<>>), 3,
                            nlp.products_cache, nlp.product_names)

\* four products were candidates and three are suggested
C6_Witness ==
    /\ NLPReturned
    /\ Len(Val(validation).suggested_corrections) = 3
    /\ Len(message) = 4

\* C7 as stated: after either validation every field of the parse result it
\* was given is unchanged.
C7_ValidationNeverModifies ==
    ((NLPReturned \/ WAReturned) /\ IsSome(given)) => result = Val(given)

\* s is a prefix of t
IsPrefix(s, t) == Len(s) <= Len(t) /\ SubSeq(t, 1, Len(s)) = s

\* C7 amended: validate_parsed_data, its suggestion mode included, leaves the
\* dict it is given unchanged (no product is added); _validate_parsed_data
\* works on the ParsedOrder it is given, leaving coordinates, products,
\* customer, delivery and payment fields unchanged, only appending to errors
\* and warnings, never raising the confidence, and recording
\* validation_completed and final_confidence in the metadata.
C7_ValidationFrame ==
    /\ NLPReturned => result = Val(given)
    /\ (WAReturned /\ IsSome(given)) =>
          LET g == Val(given)
          IN  /\ result.coordinates = g.coordinates
              /\ result.products = g.products
              /\ result.customer_info = g.customer_info
              /\ result.delivery_info = g.delivery_info
              /\ result.payment_info = g.payment_info
              /\ IsPrefix(g.errors, result.errors)
              /\ IsPrefix(g.warnings, result.warnings)
              /\ result.confidence <= g.confidence
              /\ [result.metadata EXCEPT !.validation_completed = None,
                                         !.final_confidence = None] = g.metadata
              /\ result.metadata.final_confidence = Some(result.confidence)

\* suggestion mode ran and the dict is as it was given
C7_Witness ==
    /\ NLPReturned
    /\ Val(validation).suggested_corrections # <<>>
    /\ result = Val(given)
    /\ result.products = <<>>

\* C8: every coordinate pair in a result lies inside the service area, by
\* whichever of the three extractors it was produced.
C8_CoordinatesInServiceArea ==
    /\ (WAReturned /\ IsSome(result.coordinates)) =>
          NLPInServiceArea(result.coordinates[1], result.coordinates[2])
    /\ (NLPParsed /\ "coordinates" \in DOMAIN result /\ IsSome(result.coordinates)) =>
          NLPInServiceArea(result.coordinates[1], result.coordinates[2])
    /\ (CEReturned /\ IsSome(result)) => NLPInServiceArea(result[1], result[2])
    /\ \A u \in ShortUrls :
          IsSome(cache[u]) => NLPInServiceArea(cache[u][1], cache[u][2])

\* C9: every product quantity in a parse result is in [0, 1000].
C9_QuantityBounded ==
    /\ (NLPParsed /\ "products" \in DOMAIN result) =>
          \A i \in DOMAIN result.products :
              result.products[i].quantity \in 0..1000
    /\ WAReturned =>
          \A i \in DOMAIN result.products :
              result.products[i].quantity \in 0..1000

\* the message with fragment g put in at position i
InsertAt(m, g, i) == SubSeq(m, 1, i) \o <<g>> \o SubSeq(m, i + 1, Len(m))

\* a coordinate, a product and a telephone number that parse_message extracts
WAExtractable ==
    {Frag("pair", InBox[1], InBox[2]), Frag("qty_first", 2, 1), Frag("tel", 10, 0)}

\* a coordinate and a product that parse_whatsapp_message extracts
NLPExtractable == {Frag("pair", InBox[1], InBox[2]), Frag("mention", 1, 2)}

\* C10: putting a coordinate, a product or a telephone number into the
\* message, all else equal, never lowers the confidence returned by
\* parse_message (after the validation penalties) or by
\* parse_whatsapp_message.
C10_ConfidenceMonotone ==
    /\ WAReturned =>
          \A fault \in WAFaults :
              WAParseMessage(message, fault, Val(result.metadata.parsed_at)).value
                    = result =>
                  \A g \in WAExtractable, i \in 0..Len(message) :
                      WAParseMessage(InsertAt(message, g, i), fault,
                                     Val(result.metadata.parsed_at))
                          .value.confidence >= result.confidence
    /\ (pc = "parsed" /\ op = "parse_whatsapp_message") =>
          \A fault \in NLPFaults :
              NLPParseWhatsappMessage(message, fault, nlp.products_cache,
                                      nlp.product_embeddings).value = result =>
                  \A g \in NLPExtractable, i \in 0..Len(message) :
                      NLPParseWhatsappMessage(InsertAt(message, g, i), fault,
                              nlp.products_cache, nlp.product_embeddings)
                          .value.confidence >= result.confidence

\* a message without products was parsed with penalties, and with a product
\* put in its confidence is higher
C10_Witness ==
    /\ WAReturned /\ IsSome(given)
    /\ result.products = <<>> /\ IsSome(result.coordinates)
    /\ WAParseMessage(Append(message, Frag("qty_first", 2, 1)), "none", 0)
           .value.confidence > result.confidence


RECURSIVE Power(_, _)
Power(b, n) == IF n = 0 THEN 1 ELSE b * Power(b, n - 1)

\* the warning categories of parse_message: missing coordinates, weak
\* identification, implausible payment
WarningCategories ==
    << {"No se encontraron coordenadas", "No se encontraron coordenadas de entrega"},
       {"Información limitada del cliente"},
       {"Total parece inusual"} >>

\* the categories of which the warnings w hold a text
CategoriesIn(w) ==
    {c \in DOMAIN WarningCategories :
        \E i \in DOMAIN w : w[i] \in WarningCategories[c]}

\* C11: the final confidence of parse_message is the sum of the weights of the
\* extracted categories, times 0.5 when an error is present and times 0.9 once
\* for each warning category present, and nothing else.
C11_ConfidenceFormula ==
    (WAReturned /\ IsSome(given)) =>
        LET e == IF result.errors # <<>> THEN 1 ELSE 0
            k == Cardinality(CategoriesIn(result.warnings))
        IN  result.confidence * Power(10, e + k)
                = Val(given).confidence * Power(5, e) * Power(9, k)

\* the weights parse_message would add if every extracted category counted,
\* the customer category by any of its fields
WeightsOf(r) ==
    (IF IsSome(r.coordinates) THEN Pct(25) ELSE 0)
    + (IF HasKey(r.customer_info) THEN Pct(15) ELSE 0)
    + (IF r.products # <<>> THEN Pct(35) ELSE 0)
    + (IF HasKey(r.delivery_info) THEN Pct(15) ELSE 0)
    + (IF Truthy(r.payment_info.total) \/ IsSome(r.payment_info.method)
       THEN Pct(10) ELSE 0)

\* C12: the customer weight is added whenever any customer field is
\* extracted, a client number alone included.
C12_CustomerWeight ==
    (WAReturned /\ IsSome(given)) => Val(given).confidence = WeightsOf(Val(given))

\* C13: a second parse of the same message, with the catalogue unchanged and
\* from the state the first one left, at any clock value and with any network
\* outcome, returns the same result in every field.
C13_Deterministic ==
    /\ (WAReturned /\ IsSome(given)) =>
          \A now \in 0..MaxClock : WAParseMessage(message, "none", now).value = result
    /\ (pc = "parsed" /\ op = "parse_whatsapp_message"
        /\ "error" \notin DOMAIN result) =>
          NLPParseWhatsappMessage(message, "none", nlp.products_cache,
                                  nlp.product_embeddings).value = result
    /\ CEReturned =>
          \A net \in [ShortUrls -> Responses] :
              CEExtractCoordinates(message, cache, net).value = result


\* the short links _extract_from_short_url finds in a text, in its order
ShortUrlsIn(m) ==
    (IF Kinds(m, {"short"}) # <<>> THEN <<Kinds(m, {"short"})[1].a>> ELSE <<>>) \o
    (IF Kinds(m, {"share"}) # <<>> THEN <<Kinds(m, {"share"})[1].a>> ELSE <<>>)

\* the elements of a sequence
Range(q) == {q[i] : i \in DOMAIN q}

\* a step in which extract_coordinates runs
CEStep == pc = "called" /\ op = "extract_coordinates" /\ pc' = "returned"

\* C18: extract_coordinates tries direct link, inline text, short links and
\* gazetteer in that order and returns what the first successful strategy
\* gives, always inside the service area; after a success of the direct link
\* or of the inline text no request is issued, the cache is left alone and
\* nothing is raised, whatever the network would have done; when neither
\* succeeds the short links are taken in order, and the gazetteer answers
\* only if none of them is resolved.
C18_FirstSuccessWins ==
    [][CEStep =>
        LET direct == CEExtractFromDirectUrl(message)
            text == CEExtractFromText(message)
            early == IF IsSome(direct) THEN direct ELSE text
            urls == ShortUrlsIn(message)
            resolved == SelectSeq(urls, LAMBDA u : IsSome(cache'[u]))
        IN  /\ IsSome(early) =>
                  /\ result' = early
                  /\ issued' = <<>> /\ cache' = cache /\ ~raised'
            /\ (~IsSome(early) /\ ~raised') =>
                  /\ IsPrefix(issued', SelectSeq(urls, LAMBDA u : ~IsSome(cache[u])))
                  /\ resolved # <<>> => result' = cache'[resolved[1]]
                  /\ resolved = <<>> =>
                        /\ result' = CEExtractCancunSpecific(message)
                        /\ issued' = urls
            /\ IsSome(result') => NLPInServiceArea(result'[1], result'[2])
    ]_vars

\* a text with a short link and an inline pair of the service area: the pair
\* was returned and nothing was requested
C18_Witness ==
    /\ CEReturned
    /\ message = <<Frag("short", 1, 0), Frag("pair", InBox[1], InBox[2])>>
    /\ result = InBox /\ issued = <<>> /\ ~raised

\* C19: whatever the network call of a short link does, no exception leaves
\* extract_coordinates, no link is requested twice within the call, and when
\* no link is resolved the gazetteer is consulted.
C19_ShortLinkFailuresSilent ==
    CEReturned =>
        /\ ~raised
        /\ \A i, j \in DOMAIN issued : issued[i] = issued[j] => i = j
        /\ (/\ ~IsSome(CEExtractFromDirectUrl(message))
            /\ ~IsSome(CEExtractFromText(message))
            /\ \A u \in Range(ShortUrlsIn(message)) : ~IsSome(cache[u])) =>
              result = CEExtractCancunSpecific(message)

\* C20: with no clear_cache in between, a short link that was requested once
\* is not requested again: a second call on the same text, whatever the
\* network does then, requests none of the links the first call requested.
C20_OneRequestPerUrl ==
    (CEReturned /\ ~raised) =>
        \A net \in [ShortUrls -> Responses] :
            Range(CEExtractCoordinates(message, cache, net).issued)
                \cap Range(issued) = {}

\* a step in which parse_whatsapp_message runs
ParseStep == pc = "called" /\ op = "parse_whatsapp_message" /\ pc' = "parsed"

\* a step in which a call of _load_products ends
LoadEnds == IsSome(loading) /\ loading' = None

\* the index that holds exactly the products rows, in their order
IndexOf(rows) ==
    [products_cache |-> [j \in DOMAIN rows |-> CacheEntry(rows[j])],
     product_names |-> [j \in DOMAIN rows |-> Lower(rows[j].name)],
     product_embeddings |-> [j \in DOMAIN rows |-> rows[j].id]]

\* the index self as three sequences (no embeddings: no rows)
IndexIn(self) ==
    [products_cache |-> self.products_cache,
     product_names |-> self.product_names,
     product_embeddings |-> IF IsSome(self.product_embeddings)
                            THEN Val(self.product_embeddings) ELSE <<>>]

\* C14: a parse that runs while refresh_products_cache is in progress reads
\* either the whole index the refresh started on or the whole index the
\* refresh ends with, never a mixture of the two.
C14_RefreshAtomic ==
    [][(ParseStep /\ IsSome(loading)) =>
        LET call == Val(loading)
        IN  nlp \in {call.old,
                     NLPLoadProducts(call.old, [raises |-> call.raises,
                                                rows |-> call.rows])}
    ]_vars

\* C15: when a refresh that read its source ends, the index holds exactly the
\* active products it read: cache keys, names and embedding rows correspond
\* one-to-one and in order to them, and nothing of an earlier load remains.
C15_IndexIsLatestSource ==
    [][(LoadEnds /\ ~Val(loading).raises) =>
        IndexIn(nlp') = IndexOf(Val(loading).rows)
    ]_vars

\* C16: once a refresh has ended whose source was empty or whose query
\* raised, whatever the index held before, _find_similar_products returns no
\* candidate and suggest_product_corrections no suggestion for every message,
\* and neither raises.
C16_EmptyIndexFailsOpen ==
    [][(LoadEnds /\ (Val(loading).raises \/ Val(loading).rows = <<>>)) =>
        \A m \in NLPMessages \cup IndexMessages :
            /\ NLPFindSimilarProducts(NLPCleanMessage(m), nlp'.products_cache,
                                      nlp'.product_embeddings)
                   = [raises |-> FALSE, value |-> <<>>]
            /\ NLPSuggestProductCorrections(m, 3, nlp'.products_cache,
                                            nlp'.product_names) = <<>>
    ]_vars

\* no product is active, the refresh is over and has left the embeddings of
\* two products behind an empty cache; a message naming one of them was
\* parsed without error and without a product
C16_Witness ==
    /\ NLPParsed /\ loading = None
    /\ ActiveRows(db) = <<>>
    /\ nlp.products_cache = <<>> /\ nlp.product_embeddings = Some(<<1, 2>>)
    /\ message = <<Frag("mention", 1, 1)>>
    /\ ~raised /\ "error" \notin DOMAIN result /\ result.products = <<>>

\* C17: a step of create_product or update_product that changes the active
\* products leaves the index of the endpoint rebuilt from the changed table,
\* or a refresh of it started; and the index changes in no step other than
\* those of a refresh.
C17_IndexFollowsCatalogue ==
    [][/\ ActiveRows(db') # ActiveRows(db) =>
            \/ IsSome(loading')
            \/ IndexIn(nlp') = IndexOf(ActiveRows(db'))
       /\ nlp' # nlp => IsSome(loading) \/ IsSome(loading')
    ]_vars

\* C21: whatever the interleaving of the threads, a short link that has a
\* cached value keeps that value until clear_cache empties the cache, and
\* every cached value is a pair inside the service area.
C21_InsertIfAbsent ==
    /\ [][\A u \in ShortUrls :
            (IsSome(cache[u]) /\ cache'[u] # cache[u]) =>
                \A v \in ShortUrls : ~IsSome(cache'[v])]_vars
    /\ [](\A u \in ShortUrls :
            IsSome(cache[u]) => CEValidateCoordinates(cache[u][1], cache[u][2]))

\* the candidates of all methods for the message that was parsed
CandidatesNow ==
    TfidfCandidates(NLPCleanMessage(message), nlp.products_cache,
                    Val(nlp.product_embeddings))
    \o AllFuzzyCandidates(NLPCleanMessage(message), nlp.products_cache, 1)

\* what _find_similar_products returns for the message that was parsed
FoundNow ==
    NLPFindSimilarProducts(NLPCleanMessage(message), nlp.products_cache,
                           nlp.product_embeddings)

\* C22: _find_similar_products returns one candidate for each product that
\* any method proposed and none for another product, and the confidence of
\* that candidate is the highest confidence any method gave the product.
C22_BestCandidatePerProduct ==
    (NLPParsed /\ nlp.products_cache # <<>> /\ IsSome(nlp.product_embeddings)
     /\ ~FoundNow.raises) =>
        LET found == FoundNow.value
            cands == CandidatesNow
        IN  /\ \A i, j \in DOMAIN found :
                  found[i].product_id = found[j].product_id => i = j
            /\ \A j \in DOMAIN cands : \E i \in DOMAIN found :
                  /\ found[i].product_id = cands[j].product_id
                  /\ found[i].confidence >= cands[j].confidence
            /\ \A i \in DOMAIN found : \E j \in DOMAIN cands :
                  /\ found[i].product_id = cands[j].product_id
                  /\ found[i].confidence = cands[j].confidence

\* a message for which the vector method and the fuzzy name method propose
\* the same product with different confidences
C22_Witness ==
    /\ NLPParsed /\ nlp.products_cache # <<>> /\ IsSome(nlp.product_embeddings)
    /\ ~FoundNow.raises
    /\ \E i, j \in DOMAIN CandidatesNow :
          /\ CandidatesNow[i].product_id = CandidatesNow[j].product_id
          /\ CandidatesNow[i].method = "tfidf"
          /\ CandidatesNow[j].method = "fuzzy_name"
          /\ CandidatesNow[i].confidence < CandidatesNow[j].confidence

\* the numbers within 50 characters of the matched text x in m; none when
\* the text is not in m
WindowNumbers(m, x) ==
    LET product_pos == FindFrom(m, x, 1)
    IN  IF product_pos = -1 THEN <<>>
        ELSE DigitsBetween(m, 1, Max(0, product_pos - 50),
                           Min(MessageLen(m), product_pos + MatchedLen(x) + 50))

\* C23: for every product matched in a parsed message, the quantity is the
\* first number of the window around the matched text; when the window holds
\* no number it is the number of the first message-wide quantity pattern that
\* matches, and 1 only when no such pattern matches either.
C23_QuantityFallbackOrder ==
    (NLPParsed /\ "error" \notin DOMAIN result /\ ~FoundNow.raises) =>
        \A i \in DOMAIN FoundNow.value :
            LET m == NLPCleanMessage(message)
                x == FoundNow.value[i].matched_text
                window == WindowNumbers(m, x)
            IN  NLPExtractQuantityNearProduct(m, x) =
                    IF window # <<>> THEN Min(window[1], 1000)
                    ELSE NLPGeneralQuantity(m, 1)

\* C24: when parse_message has extracted a payment total, the unusual-total
\* warning is present exactly when the total is below 10 or above 10000, a
\* total of 0 included.
C24_UnusualTotalWarned ==
    (WAReturned /\ IsSome(given) /\ IsSome(result.payment_info.total)) =>
        LET total == Val(result.payment_info.total)
        IN  ("Total parece inusual" \in Range(result.warnings))
                <=> (total < 10 \/ total > 10000)

\* the amounts written in the message, one for each place of the text that
\* holds one
AmountsIn(m) ==
    LET fs == Kinds(m, {"dollar", "total", "precio", "pesos"})
    IN  [j \in DOMAIN fs |-> fs[j].a]

\* how often the value v occurs in the sequence q
CountIn(q, v) == Cardinality({j \in DOMAIN q : q[j] = v})

\* C25: the total is the highest amount of the message and the subtotals are
\* the other amounts: every amount of the text is counted once, and the
\* amount taken as total is not among the subtotals.
C25_TotalAndSubtotals ==
    (WAReturned /\ IsSome(given) /\ IsSome(result.payment_info.total)) =>
        LET total == Val(result.payment_info.total)
            subtotals == Val(result.payment_info.subtotals)
            amounts == AmountsIn(WACleanMessage(message))
        IN  /\ \A j \in DOMAIN amounts : amounts[j] <= total
            /\ \A v \in Range(amounts) :
                  CountIn(subtotals, v)
                      = CountIn(amounts, v) - (IF v = total THEN 1 ELSE 0)
            /\ Range(subtotals) \subseteq Range(amounts)

\* C26: a pattern with a literal punctuation character that matches a place
\* of the message as it was sent matches the same place of the message as
\* _clean_message leaves it, in both parsers.
C26_NormaliserKeepsTokens ==
    /\ NLPParsed =>
          \A i \in DOMAIN message, p \in DOMAIN NLPLiteralPatterns :
              message[i].k \in NLPLiteralPatterns[p] =>
                  NLPCleanMessage(message)[i].k \in NLPLiteralPatterns[p]
    /\ WAReturned =>
          \A i \in DOMAIN message, p \in DOMAIN WALiteralPatterns :
              message[i].k \in WALiteralPatterns[p] =>
                  WACleanMessage(message)[i].k \in WALiteralPatterns[p]

\* the best score of the product with identity id over the phrases of raw
BestScore(raw, id) ==
    PartialRatio(SelectSeq(raw, LAMBDA f : FragLen(f) > 3), id)

\* C27: when no refresh is in progress, whatever refreshes went before,
\* suggest_product_corrections with max_suggestions = 3 returns at most 3
\* entries, for distinct products of the index, each with its best score over
\* the phrases of the message, above 60, in descending order; and no product
\* of the index with a score above 60 is left out unless 3 products scoring
\* at least as high are returned.
C27_TopSuggestions ==
    loading = None =>
        \A raw \in IndexMessages :
            LET found == NLPSuggestProductCorrections(raw, 3, nlp.products_cache,
                                                      nlp.product_names)
                ids == {nlp.products_cache[j].id : j \in DOMAIN nlp.products_cache}
            IN  /\ Len(found) <= 3
                /\ \A i, j \in DOMAIN found :
                      /\ found[i].product_id = found[j].product_id => i = j
                      /\ i < j => found[i].similarity_score >= found[j].similarity_score
                /\ \A i \in DOMAIN found :
                      /\ found[i].product_id \in ids
                      /\ found[i].similarity_score > 60
                      /\ found[i].similarity_score = BestScore(raw, found[i].product_id)
                /\ \A id \in ids :
                      (/\ BestScore(raw, id) > 60
                       /\ \A i \in DOMAIN found : found[i].product_id # id) =>
                          /\ Len(found) = 3
                          /\ \A i \in DOMAIN found :
                                found[i].similarity_score >= BestScore(raw, id)

\* the texts that report that no product was found
ProductNotices ==
    {"No se encontraron productos válidos",
     "No se identificaron productos en el mensaje"}

\* C28: the errors parse_message returns hold at most one entry that reports
\* missing products, and its warnings at most one entry that reports missing
\* coordinates.
C28_EachConditionOnce ==
    (WAReturned /\ IsSome(given)) =>
        /\ Cardinality({i \in DOMAIN result.errors :
                            result.errors[i] \in ProductNotices}) <= 1
        /\ Cardinality({i \in DOMAIN result.warnings :
                            result.warnings[i] \in CoordinateNotices}) <= 1

\* C29: whatever stock requests were answered, the stock of every product is
\* at least 0, every movement of type 'in' has new_stock = previous_stock +
\* quantity and every movement of type 'out' has new_stock = previous_stock -
\* quantity.
C29_StockNeverNegative ==
    /\ \A id \in Stocked : stock[id] >= 0
    /\ \A mv \in movements :
          /\ mv.movement_type = "in" =>
                mv.new_stock = mv.previous_stock + mv.quantity
          /\ mv.movement_type = "out" =>
                mv.new_stock = mv.previous_stock - mv.quantity

\* the quantity sold of product id in the sales from row i on
RECURSIVE SoldFrom(_, _)
SoldFrom(id, i) ==
    IF i > Len(sales) THEN 0
    ELSE (IF sales[i].product_id = id THEN sales[i].quantity ELSE 0)
         + SoldFrom(id, i + 1)

\* C30: with no stock-in between the orders, the quantities of the sales of a
\* product add up to no more than its stock before the first order.
C30_NoOversell ==
    \A id \in Stocked : SoldFrom(id, 1) <= OpeningStock[id]

=============================================================================
